---- MODULE Spec2Model ----
(***************************************************************************)
(* A model of the CopperLicht render pipeline: the per-tick redraw         *)
(* decision and deferred deletion of CL3D.Scene (flacescene.js), the       *)
(* mesh buffer synchronisation of CL3D.Renderer (renderer.js) and the      *)
(* registration of external material types (renderer.js).                  *)
(***************************************************************************)
EXTENDS Integers, Sequences, FiniteSets, TLC

\* ------------------------------------------------------------------ bounds

\* number of scene nodes that can be queued for deletion
NumNodes == 2
\* largest value of the millisecond clock CL3D.CLTimer.getTime()
MaxTime == 3
\* largest delay handed to addToDeletionQueue
MaxDelay == 1
\* longest deletion list
MaxQueue == 3
\* entries of the (1x1) stand-ins for the camera's Projection and View matrices
MaxMat == 2
\* longest vertex list of the mesh buffer
MaxVerts == 2
\* most triangles in the index list of the mesh buffer
MaxTris == 2
\* most external material types registered
MaxMaterialTypes == 3
\* how many children the root node gets in a scene of nodes of all kinds, of
\* lights and of transparent nodes
MaxChildren == 3
MaxLights == 5
MaxTransparent == 4
\* how many device buffers of 2D draws may stay alive
MaxBuffers == 4

Nodes == 1..NumNodes
MatVals == 1..MaxMat

\* --------------------------------------------------------------- constants

\* the public constants of CL3D.Scene for setRedrawMode
REDRAW_WHEN_CAM_MOVED == 2
REDRAW_WHEN_SCENE_CHANGED == 1
REDRAW_EVERY_FRAME == 2

\* the values doAnimate compares RedrawMode with (flacescene.js:4-6, 121-123)
MODE_CAM_MOVED == 0
MODE_SCENE_CHANGED == 1
MODE_EVERY_FRAME == 2

VARIABLES
  \* CL3D.Scene
  RedrawMode,            \* this.RedrawMode
  ForceRedrawThisFrame,  \* this.ForceRedrawThisFrame
  ActiveCamera,          \* this.ActiveCamera: NoCamera (null) or a camera [Projection, ViewMatrix]
  LastViewProj,          \* this.LastViewProj
  DeletionList,          \* this.DeletionList: sequence of [node, timeAfterToDelete]
  Parent,                \* node -> whether node.Parent is set (the node is attached)
  CollisionWorld,        \* this.CollisionWorld: NoWorld (null) or the nodes whose selector it holds
  \* CL3D.Renderer
  textureWasLoadedFlag,  \* this.textureWasLoadedFlag
  \* environment
  now,                   \* CL3D.CLTimer.getTime()
  \* observations (written by the calls, read by no call)
  last,                  \* what the tick saw and returned, if the last call was a tick
  prev,                  \* what the tick before it did, if the call before was a tick too
  forcePending,          \* forceRedrawNextFrame was called and no tick has redrawn since
  drawnViewProj,         \* Projection x View of the camera the last time a frame was drawn with one
  loadedSinceTick,       \* a texture upload has completed since the last tick
  deletion,              \* what the clearDeletionList call found and did, if the last call was one
  earliest               \* node -> the earliest deadline t+d it was queued with, 0 if never queued

VARIABLES
  \* one CL3D.MeshBuffer and its device resource
  Vertices,                    \* buf.Vertices
  Indices,                     \* buf.Indices
  OnlyPositionsChanged,        \* buf.OnlyPositionsChanged
  OnlyUpdateBufferIfPossible,  \* buf.OnlyUpdateBufferIfPossible
  RendererNativeArray,         \* buf.RendererNativeArray: NoArray (null) or the device resource
  \* observation
  drew                         \* what the drawMeshBuffer call did, if the last call was one

meshVars == <<Vertices, Indices, OnlyPositionsChanged, OnlyUpdateBufferIfPossible,
              RendererNativeArray, drew>>

VARIABLES
  \* CL3D.Renderer: the material tables
  MinExternalMaterialTypeId,   \* this.MinExternalMaterialTypeId
  MaterialPrograms,            \* this.MaterialPrograms, as the sequence of its external entries
  MaterialProgramsWithLight,   \* this.MaterialProgramsWithLight, likewise
  \* observation
  created                      \* what the createMaterialType call did, if the last call was one

matVars == <<MinExternalMaterialTypeId, MaterialPrograms, MaterialProgramsWithLight, created>>

VARIABLES
  \* CL3D.Renderer: the context, the built-in material slots and the GL state
  canvas,                      \* this.canvas: NoCanvas (null) or the canvas init was given
  gl,                          \* this.gl: whether the renderer holds a WebGL context
  width,                       \* this.width (this.height goes with it)
  BuiltinPrograms,             \* this.MaterialPrograms[f] for f below 30
  BuiltinProgramsWithLight,    \* this.MaterialProgramsWithLight[f] for f below 30
  Program2DDrawing,            \* this.Program2DDrawingColorOnly, ...TextureOnly, ...CanvasFontColor
  OnChangeMaterial,            \* this.OnChangeMaterial: "null", or what the hook does
  glState,                     \* the state of the WebGL context the calls write
  \* observation
  called                       \* what the last call on the renderer did

rendVars == <<canvas, gl, width, BuiltinPrograms, BuiltinProgramsWithLight,
              Program2DDrawing, OnChangeMaterial, glState, called>>

VARIABLES
  \* CL3D.Scene: the children of the root node and the lists of a frame
  Children,                       \* this.RootNode.Children
  AmbientLight,                   \* this.AmbientLight
  SkyBoxSceneNode,                \* this.SkyBoxSceneNode: NoNode (undefined) or a node
  SceneNodesToRender,             \* this.SceneNodesToRender
  SceneNodesToRenderTransparent,  \* this.SceneNodesToRenderTransparent
  LightsToRender,                 \* this.LightsToRender
  Overlay2DToRender,              \* this.Overlay2DToRender
  NodeCountRenderedLastTime,      \* this.NodeCountRenderedLastTime
  \* CL3D.Renderer
  Lights,                         \* this.Lights
  RendererAmbientLight,           \* this.AmbientLight of the renderer
  \* observation
  frame                           \* what the drawAll call did, if the last call was one

frameVars == <<Children, AmbientLight, SkyBoxSceneNode, SceneNodesToRender,
               SceneNodesToRenderTransparent, LightsToRender, Overlay2DToRender,
               NodeCountRenderedLastTime, Lights, RendererAmbientLight, frame>>

VARIABLES
  \* the CL3D.Texture objects the materials refer to
  Textures,                    \* texture -> its Loaded flag and its Texture (the WebGL texture)
  \* the device buffers draw2DRectangle and draw2DImage have created and not deleted
  ephemeralBuffers

texVars == <<Textures, ephemeralBuffers>>

sceneVars == <<RedrawMode, ForceRedrawThisFrame, ActiveCamera, LastViewProj,
               DeletionList, Parent, CollisionWorld, textureWasLoadedFlag,
               now, last, prev, forcePending, drawnViewProj, loadedSinceTick,
               deletion, earliest>>

\* ------------------------------------------------------------- matrices

\* CL3D.Matrix4 stand-in: a 1x1 matrix; new CL3D.Matrix4() is the identity
Identity == 1
Multiply(a, b) == a * b
MatEquals(a, b) == a = b

Cameras == [present : {TRUE}, Projection : MatVals, ViewMatrix : MatVals]
\* this.ActiveCamera = null
NoCamera == [present |-> FALSE, Projection |-> Identity, ViewMatrix |-> Identity]

\* Projection x View of the active camera
ViewProj(cam) == Multiply(cam.Projection, cam.ViewMatrix)

\* ------------------------------------------------------- redraw decision

ViewChangedByMatrices(cam, lastViewProj) ==
  ~MatEquals(ViewProj(cam), lastViewProj)

\* HasViewChangedSinceLastRedraw lines 293-303
HasViewChangedSinceLastRedraw(cam, lastViewProj) ==
  IF ~cam.present THEN TRUE
  ELSE ~MatEquals(ViewProj(cam), lastViewProj)

StoreNever(cam, lastViewProj) == lastViewProj

StoreViewMatrixForRedrawCheck(cam, lastViewProj) ==
  IF ~cam.present THEN lastViewProj
  ELSE ViewProj(cam)

NeedToRedrawCamOnlyOnView(force, mode, viewHasChanged, sceneChanged, textureLoadWasFinished, script) ==
  \/ force
  \/ (mode = MODE_CAM_MOVED /\ viewHasChanged)
  \/ (mode = MODE_SCENE_CHANGED /\ (viewHasChanged \/ sceneChanged \/ textureLoadWasFinished))
  \/ mode = MODE_EVERY_FRAME
  \/ script

\* doAnimate lines 119-124
NeedToRedraw(force, mode, viewHasChanged, sceneChanged, textureLoadWasFinished, script) ==
  \/ force
  \/ (mode = MODE_CAM_MOVED /\ (viewHasChanged \/ textureLoadWasFinished))
  \/ (mode = MODE_SCENE_CHANGED /\ (viewHasChanged \/ sceneChanged \/ textureLoadWasFinished))
  \/ mode = MODE_EVERY_FRAME
  \/ script

GetTextureWasLoadedFlag(textureWasLoaded) ==
  [b |-> textureWasLoaded, textureWasLoadedFlag |-> textureWasLoaded]

\* getAndResetTextureWasLoadedFlag (renderer.js lines 102-107): what it returns
\* and what it leaves in the flag
getAndResetTextureWasLoadedFlag(textureWasLoaded) ==
  [b |-> textureWasLoaded, textureWasLoadedFlag |-> FALSE]

ForceKept(force, needToRedraw) == force

\* doAnimate lines 126-133: the flag is reset only on the redraw path
ForceAfterDecision(force, needToRedraw) ==
  IF needToRedraw THEN FALSE ELSE force

\* ------------------------------------------------------ deferred deletion

\* this.CollisionWorld = null
NoWorld == [present |-> FALSE, selectors |-> {}]
World(sel) == [present |-> TRUE, selectors |-> sel]

\* node.Selector: the odd-numbered nodes of the scene carry a triangle selector
Selector == [n \in Nodes |-> n % 2 = 1]

RemoveAt(s, i) == SubSeq(s, 1, i - 1) \o SubSeq(s, i + 1, Len(s))

IsDueAtOrAfter(e, deleteAll, t) == deleteAll \/ e.timeAfterToDelete <= t

\* the test of clearDeletionList's loop
IsDue(e, deleteAll, t) == deleteAll \/ e.timeAfterToDelete < t

\* the loop with "++i" after a removal as well
RECURSIVE ClearLoopSkipping(_, _, _, _)
ClearLoopSkipping(st, i, deleteAll, t) ==
  IF i > Len(st.list) THEN st
  ELSE
    LET e == st.list[i] IN
    IF IsDue(e, deleteAll, t)
    THEN ClearLoopSkipping([list   |-> RemoveAt(st.list, i),
                            parent |-> [st.parent EXCEPT ![e.node] = FALSE],
                            world  |-> st.world,
                            ret    |-> TRUE],
                           i + 1, deleteAll, t)
    ELSE ClearLoopSkipping(st, i + 1, deleteAll, t)

\* the loop of clearDeletionList from index i on; st = [list, parent, world, ret]
RECURSIVE ClearLoop(_, _, _, _)
ClearLoop(st, i, deleteAll, t) ==
  IF i > Len(st.list) THEN st
  ELSE
    LET e == st.list[i] IN
    IF IsDue(e, deleteAll, t)
    THEN ClearLoop([list   |-> RemoveAt(st.list, i),
                    parent |-> [st.parent EXCEPT ![e.node] = FALSE],
                    world  |-> IF st.world.present /\ Selector[e.node]
                               THEN [st.world EXCEPT !.selectors = @ \ {e.node}]
                               ELSE st.world,
                    ret    |-> TRUE],
                   i, deleteAll, t)
    ELSE ClearLoop(st, i + 1, deleteAll, t)

clearDeletionList(list, parent, world, deleteAll, t) ==
  IF Len(list) = 0
  THEN [list |-> list, parent |-> parent, world |-> world, ret |-> FALSE]
  ELSE ClearLoop([list |-> list, parent |-> parent, world |-> world, ret |-> FALSE],
                 1, deleteAll, t)

\* ------------------------------------------------------------------ Init

\* no call of clearDeletionList yet
NoDeletion == [valid |-> FALSE]

\* no tick yet
NoPrev == [valid |-> FALSE, ret |-> FALSE, cam |-> FALSE, forced |-> FALSE, tex |-> FALSE]
NoTick == [valid |-> FALSE, ret |-> FALSE, mode |-> 2, cam |-> FALSE, forced |-> FALSE,
           viewSame |-> FALSE, anim |-> FALSE, deleted |-> FALSE, tex |-> FALSE,
           loaded |-> FALSE, script |-> FALSE]

InitScene ==
  /\ RedrawMode = 2
  /\ ForceRedrawThisFrame = FALSE
  /\ ActiveCamera = NoCamera
  /\ LastViewProj = Identity
  /\ DeletionList = <<>>
  /\ Parent = [n \in Nodes |-> TRUE]
  /\ CollisionWorld \in {NoWorld, World({n \in Nodes : Selector[n]})}
  /\ textureWasLoadedFlag = FALSE
  /\ now = 1
  /\ last = NoTick
  /\ prev = NoPrev
  /\ forcePending = FALSE
  /\ drawnViewProj = Identity
  /\ loadedSinceTick = FALSE
  /\ deletion = NoDeletion
  /\ earliest = [n \in Nodes |-> 0]

\* --------------------------------------------------------------- actions

setRedrawMode(mode) ==
  /\ RedrawMode' = mode
  /\ last' = NoTick /\ prev' = NoPrev /\ deletion' = NoDeletion
  /\ UNCHANGED <<ForceRedrawThisFrame, ActiveCamera, LastViewProj, DeletionList,
                 Parent, CollisionWorld, textureWasLoadedFlag, now,
                 forcePending, drawnViewProj, loadedSinceTick, earliest>>
  /\ UNCHANGED <<meshVars, matVars, rendVars, frameVars, texVars>>

\* also stands for the active camera's animators changing its matrices
setActiveCamera(activeCamera) ==
  /\ ActiveCamera' = activeCamera
  /\ last' = NoTick /\ prev' = NoPrev /\ deletion' = NoDeletion
  /\ UNCHANGED <<RedrawMode, ForceRedrawThisFrame, LastViewProj, DeletionList,
                 Parent, CollisionWorld, textureWasLoadedFlag, now,
                 forcePending, drawnViewProj, loadedSinceTick, earliest>>
  /\ UNCHANGED <<meshVars, matVars, rendVars, frameVars, texVars>>

forceRedrawNextFrame ==
  /\ ForceRedrawThisFrame' = TRUE
  /\ last' = NoTick /\ prev' = NoPrev /\ deletion' = NoDeletion
  /\ forcePending' = TRUE
  /\ UNCHANGED <<RedrawMode, ActiveCamera, LastViewProj, DeletionList,
                 Parent, CollisionWorld, textureWasLoadedFlag, now,
                 drawnViewProj, loadedSinceTick, earliest>>
  /\ UNCHANGED <<meshVars, matVars, rendVars, frameVars, texVars>>

addToDeletionQueue(node, afterTimeMs) ==
  /\ Len(DeletionList) < MaxQueue
  /\ DeletionList' = Append(DeletionList,
                            [node |-> node, timeAfterToDelete |-> afterTimeMs + now])
  /\ last' = NoTick /\ prev' = NoPrev /\ deletion' = NoDeletion
  /\ earliest' = [earliest EXCEPT ![node] =
                     IF @ = 0 \/ now + afterTimeMs < @ THEN now + afterTimeMs ELSE @]
  /\ UNCHANGED <<RedrawMode, ForceRedrawThisFrame, ActiveCamera, LastViewProj,
                 Parent, CollisionWorld, textureWasLoadedFlag, now,
                 forcePending, drawnViewProj, loadedSinceTick>>
  /\ UNCHANGED <<meshVars, matVars, rendVars, frameVars, texVars>>

\* a texture upload completes out of band (line 2126)
finalizeLoadedImageTexture ==
  /\ textureWasLoadedFlag' = TRUE
  /\ loadedSinceTick' = TRUE
  /\ last' = NoTick /\ prev' = NoPrev /\ deletion' = NoDeletion
  /\ UNCHANGED <<RedrawMode, ForceRedrawThisFrame, ActiveCamera, LastViewProj,
                 DeletionList, Parent, CollisionWorld, now,
                 forcePending, drawnViewProj, earliest>>
  /\ UNCHANGED <<meshVars, matVars, rendVars, frameVars, texVars>>

\* the millisecond clock advances
AdvanceClock ==
  /\ now < MaxTime
  /\ now' = now + 1
  /\ last' = NoTick /\ prev' = NoPrev /\ deletion' = NoDeletion
  /\ UNCHANGED <<RedrawMode, ForceRedrawThisFrame, ActiveCamera, LastViewProj,
                 DeletionList, Parent, CollisionWorld, textureWasLoadedFlag,
                 forcePending, drawnViewProj, loadedSinceTick, earliest>>
  /\ UNCHANGED <<meshVars, matVars, rendVars, frameVars, texVars>>

\* clearDeletionList(deleteAll) called on the scene (lines 785-812), as doAnimate
\* calls it with false and the owner of the scene with true
ClearDeletionList(deleteAll) ==
  LET cleared == clearDeletionList(DeletionList, Parent, CollisionWorld, deleteAll, now)
  IN
  /\ DeletionList' = cleared.list
  /\ Parent' = cleared.parent
  /\ CollisionWorld' = cleared.world
  /\ deletion' = [valid |-> TRUE, deleteAll |-> deleteAll, ret |-> cleared.ret,
                  list |-> DeletionList, parent |-> Parent, t |-> now]
  /\ last' = NoTick /\ prev' = NoPrev
  /\ UNCHANGED <<RedrawMode, ForceRedrawThisFrame, ActiveCamera, LastViewProj,
                 textureWasLoadedFlag, now, forcePending, drawnViewProj,
                 loadedSinceTick, earliest>>
  /\ UNCHANGED <<meshVars, matVars, rendVars, frameVars, texVars>>

\* One tick of the host loop: doAnimate(renderer) and, when it returns true,
\* drawAll(renderer).  anim is what RootNode.OnAnimate returns, script what the
\* scripting interface's needsRedraw() returns.  The fields doAnimate writes and
\* neither the redraw decision nor the deletion queue reads (LastUsedRenderer,
\* StartTime, TheSkyBoxSceneNode) are left out.
Tick(anim, script) ==
  LET cleared == clearDeletionList(DeletionList, Parent, CollisionWorld, FALSE, now)
      sceneChanged == cleared.ret \/ anim
      viewHasChanged == HasViewChangedSinceLastRedraw(ActiveCamera, LastViewProj)
      flag == getAndResetTextureWasLoadedFlag(textureWasLoadedFlag)
      textureLoadWasFinished == flag.b
      needToRedraw == NeedToRedraw(ForceRedrawThisFrame, RedrawMode, viewHasChanged,
                                   sceneChanged, textureLoadWasFinished, script)
  IN
  /\ DeletionList' = cleared.list
  /\ Parent' = cleared.parent
  /\ CollisionWorld' = cleared.world
  /\ textureWasLoadedFlag' = flag.textureWasLoadedFlag
  /\ loadedSinceTick' = FALSE
  /\ deletion' = NoDeletion
  /\ ForceRedrawThisFrame' = ForceAfterDecision(ForceRedrawThisFrame, needToRedraw)
  /\ LastViewProj' = IF needToRedraw
                     THEN StoreViewMatrixForRedrawCheck(ActiveCamera, LastViewProj)
                     ELSE LastViewProj
  /\ last' = [valid    |-> TRUE,
              ret      |-> needToRedraw,
              mode     |-> RedrawMode,
              cam      |-> ActiveCamera.present,
              forced   |-> forcePending,
              viewSame |-> ActiveCamera.present /\ ViewProj(ActiveCamera) = drawnViewProj,
              anim     |-> anim,
              deleted  |-> Len(DeletionList') < Len(DeletionList),
              tex      |-> textureLoadWasFinished,
              loaded   |-> loadedSinceTick,
              script   |-> script]
  /\ prev' = [valid |-> last.valid, ret |-> last.ret, cam |-> last.cam, forced |-> last.forced,
              tex |-> last.tex]
  /\ forcePending' = IF needToRedraw THEN FALSE ELSE forcePending
  /\ drawnViewProj' = IF needToRedraw /\ ActiveCamera.present
                      THEN ViewProj(ActiveCamera) ELSE drawnViewProj
  /\ UNCHANGED <<RedrawMode, ActiveCamera, now, earliest>>
  /\ UNCHANGED <<meshVars, matVars, rendVars, frameVars, texVars>>

\* ------------------------------------------------------------ mesh buffer

\* the vertices a mesh buffer is filled with: vertex k of variant v
\* Color is the 32 bit colour, kept as its <<alpha, red, green, blue>> bytes
Vertex3D(k, v) ==
  [Pos      |-> <<10 * v + k, 20 * v + k, 30 * v + k>>,
   Normal   |-> <<v, k, 1>>,
   TCoords  |-> <<k, v>>,
   TCoords2 |-> <<v + 2, k + 2>>,
   Color    |-> <<255, 40 * v + k, 80 * v + k, 120 * v + k>>]

Variants == {1, 2}

\* the vertex lists and the index lists (whole triangles) the buffer is given
VertexList(n, v) == [i \in 1..n |-> Vertex3D(i, v)]
Triangle(t, v) == IF v = 1 THEN <<t, t + 1, t + 2>> ELSE <<t + 2, t, t + 1>>
IndexList(n, v) == [i \in 1..(3 * n) |-> Triangle((i - 1) \div 3, v)[((i - 1) % 3) + 1]]

\* CL3D.getRed(c)/255.0 and so on: the channel, as the numerator over 255
getAlpha(c) == c[1]
getRed(c) == c[2]
getGreen(c) == c[3]
getBlue(c) == c[4]

\* a new WebGLFloatArray(n) / WebGLUnsignedShortArray(n): n zeros
ZeroArray(n) == [i \in 1..n |-> 0]

\* arr after the loop "for i < len: arr[i*w + c] = rows[i][c]", rows[i] being the
\* w values the loop takes from Vertices[i]; a typed
\* array ignores a write past its end
FillArray(arr, rows, w) ==
  [i \in 1..Len(arr) |->
     IF (i - 1) \div w < Len(rows) THEN rows[((i - 1) \div w) + 1][((i - 1) % w) + 1]
     ELSE arr[i]]

\* what the loops take from the vertices
Positions(vs) == [i \in 1..Len(vs) |-> vs[i].Pos]
Normals(vs) == [i \in 1..Len(vs) |-> vs[i].Normal]
TexCoords(vs) == [i \in 1..Len(vs) |-> vs[i].TCoords]
TexCoords2(vs) == [i \in 1..Len(vs) |-> vs[i].TCoords2]
Colors(vs) ==
  [i \in 1..Len(vs) |-> <<getRed(vs[i].Color), getGreen(vs[i].Color),
                           getBlue(vs[i].Color), getAlpha(vs[i].Color)>>]

IndexArrayUnswapped(ind) == ind

\* the loop "for j += 3: a[j] = I[j]; a[j+1] = I[j+2]; a[j+2] = I[j+1]" on a new
\* array of Len(ind) elements (a read past the end of I stores 0)
IndexArray(ind) ==
  [i \in 1..Len(ind) |->
     LET k == (i - 1) % 3
         j == (i - 1) - k
         src == IF k = 0 THEN j + 1 ELSE IF k = 1 THEN j + 3 ELSE j + 2
     IN IF src <= Len(ind) THEN ind[src] ELSE 0]

\* buf.RendererNativeArray = null
NoArray == [present |-> FALSE]

\* a device buffer handle: gl.createBuffer() gives each device resource object
\* its own buffers; obj names the resource object (new Object()) they were made for
Handle(obj, name) == [obj |-> obj, buffer |-> name]

\* an object identity that no live device resource has
FreshObject(rna) == IF rna.present /\ rna.obj = 1 THEN 2 ELSE 1

\* createRendererNativeArray lines 416-541: the resource made from the buffer's data.
\* The ...Data fields are the contents of the device buffers.
NewNativeArray(vs, ind, obj) ==
  LET len == Len(vs)
      positionsArray == FillArray(ZeroArray(len * 3), Positions(vs), 3)
      normalsArray == FillArray(ZeroArray(len * 3), Normals(vs), 3)
      tcoordsArray == FillArray(ZeroArray(len * 2), TexCoords(vs), 2)
      tcoordsArray2 == FillArray(ZeroArray(len * 2), TexCoords2(vs), 2)
      colorArray == FillArray(ZeroArray(len * 4), Colors(vs), 4)
      indexArray == IndexArray(ind)
  IN [present         |-> TRUE,
      obj             |-> obj,
      positionBuffer  |-> Handle(obj, "position"),
      positionData    |-> positionsArray,
      positionsArray  |-> positionsArray,
      texcoordsBuffer |-> Handle(obj, "texcoords"),
      texcoordsData   |-> tcoordsArray,
      texcoordsBuffer2|-> Handle(obj, "texcoords2"),
      texcoordsData2  |-> tcoordsArray2,
      normalBuffer    |-> Handle(obj, "normal"),
      normalData      |-> normalsArray,
      colorBuffer     |-> Handle(obj, "color"),
      colorData       |-> colorArray,
      colorArray      |-> colorArray,
      indexBuffer     |-> Handle(obj, "index"),
      indexData       |-> indexArray,
      indexCount      |-> Len(ind),
      vertexCount     |-> len]

createRendererNativeArray(rna, vs, ind) ==
  IF ~rna.present THEN NewNativeArray(vs, ind, FreshObject(rna)) ELSE rna

\* updateRendererNativeArray lines 329-379: the in-place path
UpdateInPlace(rna, vs, ind) ==
  LET positionsArray == FillArray(rna.positionsArray, Positions(vs), 3)
      colorArray == FillArray(rna.colorArray, Colors(vs), 4)
      regrow == rna.indexCount < Len(ind)
  IN [rna EXCEPT
        !.positionsArray = positionsArray,
        !.positionData = positionsArray,
        !.colorArray = colorArray,
        !.colorData = colorArray,
        !.indexBuffer = IF regrow THEN Handle(rna.obj, "index2") ELSE @,
        !.indexData = IF regrow THEN IndexArray(ind) ELSE @,
        !.indexCount = Len(ind),
        !.vertexCount = Len(vs)]

NeverGrown(rna, vs, ind) == FALSE

\* updateRendererNativeArray lines 321-322
HasGrown(rna, vs, ind) ==
  rna.vertexCount < Len(vs) \/ rna.indexCount < Len(ind)

UpdateKeepsColors(rna, vs, ind) ==
  IF Len(vs) = 0 \/ Len(ind) = 0 THEN rna
  ELSE IF HasGrown(rna, vs, ind) THEN NewNativeArray(vs, ind, FreshObject(rna))
  ELSE [UpdateInPlace(rna, vs, ind) EXCEPT !.colorArray = rna.colorArray,
                                           !.colorData = rna.colorData]

\* updateRendererNativeArray lines 316-380; the resource made anew (lines 323-326)
\* is an object other than the one it replaces
updateRendererNativeArray(rna, vs, ind) ==
  IF Len(vs) = 0 \/ Len(ind) = 0 THEN rna
  ELSE IF HasGrown(rna, vs, ind) THEN NewNativeArray(vs, ind, FreshObject(rna))
  ELSE UpdateInPlace(rna, vs, ind)

updatePositionsInRendererNativeArray(rna, vs) ==
  LET positionsArray == FillArray(rna.positionsArray, Positions(vs), 3)
  IN [rna EXCEPT !.positionsArray = positionsArray, !.positionData = positionsArray]

SyncPathPositionsFirst(rna, onlyUpdate, onlyPositions) ==
  IF ~rna.present THEN "create"
  ELSE IF onlyPositions THEN "positions"
  ELSE IF onlyUpdate THEN "update"
  ELSE "none"

\* the step drawMeshBuffer takes before drawing (lines 297-304)
SyncPath(rna, onlyUpdate, onlyPositions) ==
  IF ~rna.present THEN "create"
  ELSE IF onlyUpdate THEN "update"
  ELSE IF onlyPositions THEN "positions"
  ELSE "none"

\* "no indexCountToUse given"
NotGiven == -1

\* drawWebGlStaticGeometry lines 645-648: the index references gl.drawElements reads
\* from the bound index buffer; a count past the end of the buffer is a GL error
\* and draws nothing
DrawElements(b, indexCountToUse) ==
  LET count == IF indexCountToUse = NotGiven THEN b.indexCount ELSE indexCountToUse
  IN [count |-> count,
      refs  |-> IF count <= Len(b.indexData) THEN SubSeq(b.indexData, 1, count) ELSE <<>>]

NoDraw == [valid |-> FALSE]

\* which object a device resource is, its buffer handles and its counts
ResourceId(rna) ==
  IF ~rna.present THEN [present |-> FALSE]
  ELSE [present |-> TRUE, obj |-> rna.obj,
        handles |-> <<rna.positionBuffer, rna.texcoordsBuffer, rna.texcoordsBuffer2,
                      rna.normalBuffer, rna.colorBuffer, rna.indexBuffer>>,
        indexCount |-> rna.indexCount, vertexCount |-> rna.vertexCount,
        capacity |-> Len(rna.positionsArray) \div 3,
        indexCapacity |-> Len(rna.indexData)]

InitMesh ==
  /\ Vertices = <<>>
  /\ Indices = <<>>
  /\ OnlyPositionsChanged = FALSE
  /\ OnlyUpdateBufferIfPossible = FALSE
  /\ RendererNativeArray = NoArray
  /\ drew = NoDraw

\* the owner of the buffer rewrites its geometry
SetGeometry(vs, ind) ==
  /\ Vertices' = vs
  /\ Indices' = ind
  /\ drew' = NoDraw
  /\ UNCHANGED <<OnlyPositionsChanged, OnlyUpdateBufferIfPossible, RendererNativeArray>>
  /\ UNCHANGED <<sceneVars, matVars, rendVars, frameVars, texVars>>

\* the owner of the buffer flags it for an update
SetUpdateFlags(onlyPositions, onlyUpdate) ==
  /\ OnlyPositionsChanged' = onlyPositions
  /\ OnlyUpdateBufferIfPossible' = onlyUpdate
  /\ drew' = NoDraw
  /\ UNCHANGED <<Vertices, Indices, RendererNativeArray>>
  /\ UNCHANGED <<sceneVars, matVars, rendVars, frameVars, texVars>>

GlNeverNull(hasGl) == FALSE

\* "if (this.gl == null) return;" (lines 294, 170, 1123, 1152)
GlIsNull(hasGl) == ~hasGl

\* what is drawn when nothing is
NoGeometry == [count |-> 0, refs |-> <<>>]

\* drawMeshBuffer(buf, indexCountToUse) lines 289-310 with drawWebGlStaticGeometry:
\* program is this.currentGLProgram, which drawWebGlStaticGeometry dereferences
\* (line 605) before it draws; a call on a null gl or a null program raises
MeshBufferDraw(indexCountToUse, program) ==
  LET path == SyncPath(RendererNativeArray, OnlyUpdateBufferIfPossible, OnlyPositionsChanged)
      rna == CASE path = "create" ->
                    createRendererNativeArray(RendererNativeArray, Vertices, Indices)
               [] path = "update" ->
                    updateRendererNativeArray(RendererNativeArray, Vertices, Indices)
               [] path = "positions" ->
                    updatePositionsInRendererNativeArray(RendererNativeArray, Vertices)
               [] OTHER -> RendererNativeArray
  IN
  IF GlIsNull(gl) \/ ~gl
  THEN /\ drew' = [valid  |-> TRUE,
                   path   |-> "no context",
                   given  |-> indexCountToUse,
                   gl     |-> gl,
                   flags  |-> [OnlyUpdateBufferIfPossible |-> OnlyUpdateBufferIfPossible,
                               OnlyPositionsChanged |-> OnlyPositionsChanged],
                   before |-> ResourceId(RendererNativeArray),
                   draw   |-> NoGeometry,
                   threw  |-> ~GlIsNull(gl)]
       /\ UNCHANGED <<Vertices, Indices, OnlyPositionsChanged, OnlyUpdateBufferIfPossible,
                      RendererNativeArray>>
  ELSE /\ RendererNativeArray' = rna
       /\ OnlyPositionsChanged' = FALSE
       /\ OnlyUpdateBufferIfPossible' = FALSE
       /\ drew' = [valid  |-> TRUE,
                   path   |-> path,
                   given  |-> indexCountToUse,
                   gl     |-> gl,
                   flags  |-> [OnlyUpdateBufferIfPossible |-> OnlyUpdateBufferIfPossible,
                               OnlyPositionsChanged |-> OnlyPositionsChanged],
                   before |-> ResourceId(RendererNativeArray),
                   draw   |-> IF program.present THEN DrawElements(rna, indexCountToUse)
                              ELSE NoGeometry,
                   threw  |-> ~program.present]
       /\ UNCHANGED <<Vertices, Indices>>

drawMeshBuffer(indexCountToUse) ==
  /\ MeshBufferDraw(indexCountToUse, glState.program)
  /\ UNCHANGED <<sceneVars, matVars, rendVars, frameVars, texVars>>

\* --------------------------------------------------------- material types

\* a shader program object; no is the identity gl.createProgram() gives it
Program(no, linked, blendenabled) ==
  [present |-> TRUE, no |-> no, linked |-> linked, blendenabled |-> blendenabled]
\* null
NoProgram == [present |-> FALSE, no |-> 0, linked |-> FALSE, blendenabled |-> FALSE]

\* loadShader lines 1349-1370: null unless the shader compiles
loadShader(compiles) == compiles

\* createShaderProgram lines 1378-1451: a failed link is logged and the program returned
createShaderProgram(no, vsCompiles, fsCompiles, links) ==
  IF ~loadShader(vsCompiles) \/ ~loadShader(fsCompiles) THEN NoProgram
  ELSE Program(no, links, FALSE)

\* createMaterialTypeInternal lines 1555-1582
createMaterialTypeInternal(no, vsCompiles, fsCompiles, links, blendenabled) ==
  LET program == createShaderProgram(no, vsCompiles, fsCompiles, links)
  IN IF program.present THEN [program EXCEPT !.blendenabled = blendenabled] ELSE program

\* no call of createMaterialType yet; ret is what the last call returned, before the
\* value of MinExternalMaterialTypeId it found, prevRet the last id an earlier call
\* returned and prevGood the last id returned by an earlier call whose shaders
\* compiled and linked (the top of the built-in range when there is none)
NotCreated ==
  [valid |-> FALSE, ret |-> -1, vsCompiles |-> FALSE, fsCompiles |-> FALSE, links |-> FALSE,
   before |-> 30, prevRet |-> 30, prevGood |-> 30]

\* the ids the caller has been handed, carried from one call to the next
LastRet(c) == IF c.valid /\ c.ret # -1 THEN c.ret ELSE c.prevRet
LastGood(c) ==
  IF c.valid /\ c.ret # -1 /\ c.vsCompiles /\ c.fsCompiles /\ c.links THEN c.ret ELSE c.prevGood

\* the renderer after init(): the entries of the two tables above the built-in
\* range, MaterialPrograms[MinExternalMaterialTypeId + i] for i = 1, 2, ...
InitMaterial ==
  /\ MinExternalMaterialTypeId = 30
  /\ MaterialPrograms = <<>>
  /\ MaterialProgramsWithLight = <<>>
  /\ created = NotCreated

\* a store one index lower than the one asked for
StoreProgramBelow(table, id, program) ==
  IF (id - 31) \in 1..Len(table) THEN [table EXCEPT ![id - 31] = program]
  ELSE Append(table, program)

\* this.MaterialPrograms[id] = program (lines 1524-1525) on the entries above the
\* built-in range: an entry that exists is replaced, the next one is added
StoreProgram(table, id, program) ==
  IF (id - 30) \in 1..Len(table) THEN [table EXCEPT ![id - 30] = program]
  ELSE Append(table, program)

\* createMaterialType(vertexShaderSource, fragmentShaderSource, blendenabled, ...):
\* the sources are given by what the driver makes of them
createMaterialType(vsCompiles, fsCompiles, links, blendenabled) ==
  LET program == createMaterialTypeInternal(MinExternalMaterialTypeId + 1,
                                            vsCompiles, fsCompiles, links, blendenabled)
  IN
  /\ MinExternalMaterialTypeId - 30 < MaxMaterialTypes
  /\ IF ~program.present
     THEN /\ UNCHANGED <<MinExternalMaterialTypeId, MaterialPrograms, MaterialProgramsWithLight>>
          /\ created' = [valid |-> TRUE, ret |-> -1,
                         vsCompiles |-> vsCompiles, fsCompiles |-> fsCompiles, links |-> links,
                         before |-> MinExternalMaterialTypeId,
                         prevRet |-> LastRet(created), prevGood |-> LastGood(created)]
     ELSE /\ MinExternalMaterialTypeId' = MinExternalMaterialTypeId + 1
          /\ MaterialPrograms' =
               StoreProgram(MaterialPrograms, MinExternalMaterialTypeId + 1, program)
          /\ MaterialProgramsWithLight' =
               StoreProgram(MaterialProgramsWithLight, MinExternalMaterialTypeId + 1, program)
          /\ created' = [valid |-> TRUE, ret |-> MinExternalMaterialTypeId + 1,
                         vsCompiles |-> vsCompiles, fsCompiles |-> fsCompiles, links |-> links,
                         before |-> MinExternalMaterialTypeId,
                         prevRet |-> LastRet(created), prevGood |-> LastGood(created)]
  /\ UNCHANGED <<sceneVars, meshVars, rendVars, frameVars, texVars>>

\* ---------------------------------------------------------------- renderer

\* CL3D.Material.EMT_...: the built-in material type ids
EMT_SOLID == 0
EMT_LIGHTMAP == 2
EMT_REFLECTION_2_LAYER == 11
EMT_TRANSPARENT_ADD_COLOR == 12
EMT_TRANSPARENT_ALPHA_CHANNEL == 13
EMT_TRANSPARENT_ALPHA_CHANNEL_REF == 14
EMT_TRANSPARENT_REFLECTION_2_LAYER == 16
EMT_NORMAL_MAP_SOLID == 17
EMT_ONETEXTURE_BLEND == 23
EMT_SOLID_VERTEX_ALPHA_TWO_TEXTURE_BLEND == 25

\* the ids below this.MinExternalMaterialTypeId as the renderer is constructed
BuiltinIds == 0..29

\* the shader sources initWebGL compiles
VertexSources ==
  {"vs_shader_normaltransform", "vs_shader_reflectiontransform",
   "vs_shader_normaltransform_gouraud", "vs_shader_normalmappedtransform",
   "vs_shader_2ddrawing_coloronly", "vs_shader_2ddrawing_texture",
   "vs_shader_normaltransform_with_light", "vs_shader_reflectiontransform_with_light"}
FragmentSources ==
  {"fs_shader_onlyfirsttexture_gouraud", "fs_shader_lightmapcombine",
   "fs_shader_lightmapcombine_m4", "fs_shader_onlyfirsttexture_gouraud_alpharef",
   "fs_shader_normalmapped", "fs_shader_vertex_alpha_two_textureblend",
   "fs_shader_simplecolor", "fs_shader_onlyfirsttexture",
   "fs_shader_2ddrawing_canvasfont", "fs_shader_lightmapcombine_gouraud"}
Sources == VertexSources \cup FragmentSources

\* initWebGL lines 1596-1614 and 1636-1644: the createMaterialTypeInternal calls in
\* their order; no is the place of the call, which names the program it creates.
\* failing is the set of sources the driver does not compile; the built-in
\* programs whose shaders compile link.
BuiltinProgram(no, vs, fs, blendenabled, failing) ==
  createMaterialTypeInternal(no, vs \notin failing, fs \notin failing, TRUE, blendenabled)

\* the variables of initWebGL after the unlit programs are created (lines 1596-1610)
UnlitPrograms(failing) ==
  [fallbackShader |->
     BuiltinProgram(1, "vs_shader_normaltransform", "fs_shader_onlyfirsttexture_gouraud", FALSE, failing),
   programLightmapMaterial |->
     BuiltinProgram(2, "vs_shader_normaltransform", "fs_shader_lightmapcombine", FALSE, failing),
   programLightmapMaterial_m4 |->
     BuiltinProgram(3, "vs_shader_normaltransform", "fs_shader_lightmapcombine_m4", FALSE, failing),
   programTransparentAlphaChannel |->
     BuiltinProgram(4, "vs_shader_normaltransform", "fs_shader_onlyfirsttexture_gouraud", TRUE, failing),
   programTransparentAlphaChannelRef |->
     BuiltinProgram(5, "vs_shader_normaltransform", "fs_shader_onlyfirsttexture_gouraud_alpharef", TRUE, failing),
   programTransparentAdd |->
     BuiltinProgram(6, "vs_shader_normaltransform", "fs_shader_onlyfirsttexture_gouraud", TRUE, failing),
   programReflectionMaterial |->
     BuiltinProgram(7, "vs_shader_reflectiontransform", "fs_shader_lightmapcombine", FALSE, failing),
   programTranspReflectionMaterial |->
     BuiltinProgram(8, "vs_shader_reflectiontransform", "fs_shader_lightmapcombine", TRUE, failing),
   programGouraudShaded |->
     BuiltinProgram(9, "vs_shader_normaltransform_gouraud", "fs_shader_onlyfirsttexture_gouraud", FALSE, failing),
   programNormalmappedMaterial |->
     BuiltinProgram(10, "vs_shader_normalmappedtransform", "fs_shader_normalmapped", FALSE, failing),
   programSolidVertexAlphaTwoTextureBlendMaterial |->
     BuiltinProgram(11, "vs_shader_normaltransform", "fs_shader_vertex_alpha_two_textureblend", FALSE, failing)]

\* this.Program2DDrawing... (lines 1612-1614)
Programs2D(failing) ==
  [Program2DDrawingColorOnly |->
     BuiltinProgram(12, "vs_shader_2ddrawing_coloronly", "fs_shader_simplecolor", FALSE, failing),
   Program2DDrawingTextureOnly |->
     BuiltinProgram(13, "vs_shader_2ddrawing_texture", "fs_shader_onlyfirsttexture", FALSE, failing),
   Program2DDrawingCanvasFontColor |->
     BuiltinProgram(14, "vs_shader_2ddrawing_texture", "fs_shader_2ddrawing_canvasfont", FALSE, failing)]

\* the variables of initWebGL that lines 1636-1644 assign again
LitPrograms(failing) ==
  [programStandardMaterial |->
     BuiltinProgram(15, "vs_shader_normaltransform_with_light", "fs_shader_onlyfirsttexture_gouraud", FALSE, failing),
   programTransparentAlphaChannel |->
     BuiltinProgram(16, "vs_shader_normaltransform_with_light", "fs_shader_onlyfirsttexture_gouraud", TRUE, failing),
   programTransparentAlphaChannelRef |->
     BuiltinProgram(17, "vs_shader_normaltransform_with_light", "fs_shader_onlyfirsttexture_gouraud_alpharef", TRUE, failing),
   programTransparentAdd |->
     BuiltinProgram(18, "vs_shader_normaltransform_with_light", "fs_shader_onlyfirsttexture_gouraud", TRUE, failing),
   programReflectionMaterial |->
     BuiltinProgram(19, "vs_shader_reflectiontransform_with_light", "fs_shader_lightmapcombine_gouraud", FALSE, failing),
   programTranspReflectionMaterial |->
     BuiltinProgram(20, "vs_shader_reflectiontransform_with_light", "fs_shader_lightmapcombine_gouraud", TRUE, failing),
   programSolidVertexAlphaTwoTextureBlendMaterial |->
     BuiltinProgram(21, "vs_shader_normaltransform_with_light", "fs_shader_vertex_alpha_two_textureblend", FALSE, failing)]

\* lines 1616-1632: the slots of this.MaterialPrograms that are assigned, by id
ExplicitUnlit(f, failing) ==
  LET p == UnlitPrograms(failing)
  IN CASE f \in {EMT_SOLID, EMT_SOLID + 1} -> p.fallbackShader
       [] f \in {EMT_LIGHTMAP, EMT_LIGHTMAP + 1, EMT_LIGHTMAP + 2} -> p.programLightmapMaterial
       [] f = EMT_LIGHTMAP + 3 -> p.programLightmapMaterial_m4
       [] f = EMT_TRANSPARENT_ADD_COLOR -> p.programTransparentAdd
       [] f = EMT_TRANSPARENT_ALPHA_CHANNEL -> p.programTransparentAlphaChannel
       [] f = EMT_TRANSPARENT_ALPHA_CHANNEL_REF -> p.programTransparentAlphaChannelRef
       [] f = EMT_REFLECTION_2_LAYER -> p.programReflectionMaterial
       [] f = EMT_TRANSPARENT_REFLECTION_2_LAYER -> p.programTranspReflectionMaterial
       [] f = EMT_NORMAL_MAP_SOLID -> p.programNormalmappedMaterial
       [] f = EMT_SOLID_VERTEX_ALPHA_TWO_TEXTURE_BLEND -> p.programSolidVertexAlphaTwoTextureBlendMaterial
       [] f = EMT_ONETEXTURE_BLEND -> p.programGouraudShaded
       [] OTHER -> NoProgram

\* lines 1646-1658: the slots of this.MaterialProgramsWithLight that are assigned
ExplicitLit(f, failing) ==
  LET p == UnlitPrograms(failing)
      q == LitPrograms(failing)
  IN CASE f \in {EMT_SOLID, EMT_SOLID + 1} -> q.programStandardMaterial
       [] f \in {EMT_LIGHTMAP, EMT_LIGHTMAP + 1, EMT_LIGHTMAP + 2} -> p.programLightmapMaterial
       [] f = EMT_LIGHTMAP + 3 -> p.programLightmapMaterial_m4
       [] f = EMT_TRANSPARENT_ADD_COLOR -> q.programTransparentAdd
       [] f = EMT_TRANSPARENT_ALPHA_CHANNEL -> q.programTransparentAlphaChannel
       [] f = EMT_TRANSPARENT_ALPHA_CHANNEL_REF -> q.programTransparentAlphaChannelRef
       [] f = EMT_REFLECTION_2_LAYER -> q.programReflectionMaterial
       [] f = EMT_TRANSPARENT_REFLECTION_2_LAYER -> q.programTranspReflectionMaterial
       [] f = EMT_NORMAL_MAP_SOLID -> p.programNormalmappedMaterial
       [] f = EMT_SOLID_VERTEX_ALPHA_TWO_TEXTURE_BLEND -> q.programSolidVertexAlphaTwoTextureBlendMaterial
       [] OTHER -> NoProgram

\* lines 1660-1667: the slots that hold null get fallbackShader, whatever it is
SetFallbackMaterials(table, fallbackShader) ==
  [f \in BuiltinIds |-> IF ~table[f].present THEN fallbackShader ELSE table[f]]

\* textures: null, or a texture with its Loaded flag and its WebGL texture
NoTexture == [present |-> FALSE, Loaded |-> FALSE, Texture |-> 0]
Texture(loaded, texture) == [present |-> TRUE, Loaded |-> loaded, Texture |-> texture]
TextureObjects == {1, 2}

\* a CL3D.Texture before its image is loaded, and after deleteTexture (lines 1855-1856)
UnloadedTexture == [Loaded |-> FALSE, Texture |-> 0]
\* a CL3D.Texture object with its image uploaded: texture object t holds WebGL texture t
LoadedTexture(t) == [Loaded |-> TRUE, Texture |-> t]
\* mat.Tex1 / mat.Tex2 referring to texture object t, as the calls read it
TextureOf(textures, t) ==
  [present |-> TRUE, Loaded |-> textures[t].Loaded, Texture |-> textures[t].Texture, id |-> t]

\* the materials the calls are given; Type is any integer a caller may pass and
\* noDepthMap is what mat.doesNotUseDepthMap() returns
MaterialTypes ==
  {EMT_SOLID, EMT_TRANSPARENT_ALPHA_CHANNEL, 6, 30, -1}
MaterialFlavour(k) ==
  CASE k = 1 -> [ZWriteEnabled |-> TRUE, noDepthMap |-> FALSE, ZReadEnabled |-> TRUE,
                 BackfaceCulling |-> TRUE, Tex1 |-> Texture(TRUE, 1), ClampTexture1 |-> FALSE,
                 Tex2 |-> NoTexture]
    [] OTHER -> [ZWriteEnabled |-> TRUE, noDepthMap |-> TRUE, ZReadEnabled |-> FALSE,
                 BackfaceCulling |-> FALSE, Tex1 |-> Texture(FALSE, 1), ClampTexture1 |-> TRUE,
                 Tex2 |-> Texture(TRUE, 2)]
Material(type, lighting, k) ==
  [Type |-> type, Lighting |-> lighting, flags |-> MaterialFlavour(k)]
Materials == {Material(t, l, k) : t \in MaterialTypes, l \in BOOLEAN, k \in 1..2}

\* a material of the first flavour with the given textures
MaterialWith(type, tex1, tex2) ==
  [Type |-> type, Lighting |-> FALSE,
   flags |-> [MaterialFlavour(1) EXCEPT !.Tex1 = tex1, !.Tex2 = tex2]]

\* the blend factors a program was created with (blendsfactor, blenddfactor)
BlendFactors(program) ==
  IF program.no \in {6, 18} THEN "ONE, ONE_MINUS_SRC_COLOR"
  ELSE IF program.no <= 21 THEN "SRC_ALPHA, ONE_MINUS_SRC_ALPHA"
  ELSE "as given to createMaterialType"

\* the state of a WebGL context as it is obtained: program is the program in use
\* (this.currentGLProgram), tex0 and tex1 the textures bound to the two units
\* (0 for none), activeTexture the unit gl.activeTexture selected last and wrap
\* whether a texture object clamps to its edge
DefaultGLState ==
  [program |-> NoProgram, blend |-> FALSE, blendFunc |-> "ONE, ZERO",
   depthMask |-> TRUE, depthTest |-> FALSE, cull |-> FALSE,
   activeTexture |-> 0, tex0 |-> 0, tex1 |-> 0, wrap |-> [t \in TextureObjects |-> FALSE]]

\* initWebGL lines 1671-1682
InitialGLState(programStandardMaterial) ==
  [DefaultGLState EXCEPT !.program = programStandardMaterial,
                         !.depthMask = TRUE, !.depthTest = TRUE, !.blend = FALSE,
                         !.blendFunc = "SRC_ALPHA, ONE_MINUS_SRC_ALPHA", !.cull = TRUE]

\* no call on the renderer observed; gpu tells whether the call issued a WebGL
\* call, threw whether it raised, hook whether it invoked OnChangeMaterial, kept
\* whether it left the GL state as it was, resolved whether it found a program,
\* asNormal whether the GL state it left is the one the same call leaves when
\* the hook returns normally
NoCall ==
  [valid |-> FALSE, op |-> "none", ret |-> FALSE, gpu |-> FALSE, threw |-> FALSE,
   hook |-> FALSE, kept |-> TRUE, resolved |-> FALSE, asNormal |-> TRUE,
   mat |-> Material(0, FALSE, 1)]
Call(op, ret, gpu, threw, before, after) ==
  [NoCall EXCEPT !.valid = TRUE, !.op = op, !.ret = ret, !.gpu = gpu, !.threw = threw,
                 !.kept = (before = after)]

NoCanvas == [present |-> FALSE, width |-> 0]
Canvas(w) == [present |-> TRUE, width |-> w]
NoPrograms2D == Programs2D(Sources)

\* the renderer as CL3D.Renderer() constructs it (lines 15-56)
InitRenderer ==
  /\ canvas = NoCanvas
  /\ gl = FALSE
  /\ width = 0
  /\ BuiltinPrograms = [f \in BuiltinIds |-> NoProgram]
  /\ BuiltinProgramsWithLight = [f \in BuiltinIds |-> NoProgram]
  /\ Program2DDrawing = NoPrograms2D
  /\ OnChangeMaterial = "null"
  /\ glState = DefaultGLState
  /\ called = NoCall

\* ensuresizeok lines 1199-1218: the width (and height) the renderer records
ensuresizeok(c, hasGl, w) ==
  IF ~c.present \/ ~hasGl THEN w ELSE c.width

\* init(canvaselement) lines 1223-1269 with initWebGL lines 1587-1683: hasContext
\* tells whether the canvas gives a WebGL context under one of the five names,
\* failing which shader sources the driver does not compile
init(canvasWidth, hasContext, failing) ==
  LET unlit == [f \in BuiltinIds |-> ExplicitUnlit(f, failing)]
      lit == [f \in BuiltinIds |-> ExplicitLit(f, failing)]
      fallbackShader == UnlitPrograms(failing).fallbackShader
      after == InitialGLState(LitPrograms(failing).programStandardMaterial)
  IN
  /\ ~canvas.present
  /\ canvas' = Canvas(canvasWidth)
  /\ gl' = hasContext
  /\ IF ~hasContext
     THEN /\ called' = Call("init", FALSE, FALSE, FALSE, glState, glState)
          /\ UNCHANGED <<width, BuiltinPrograms, BuiltinProgramsWithLight,
                         Program2DDrawing, glState>>
     ELSE /\ BuiltinPrograms' = SetFallbackMaterials(unlit, fallbackShader)
          /\ BuiltinProgramsWithLight' = SetFallbackMaterials(lit, fallbackShader)
          /\ Program2DDrawing' = Programs2D(failing)
          /\ glState' = after
          /\ width' = ensuresizeok(Canvas(canvasWidth), TRUE, width)
          /\ called' = Call("init", TRUE, TRUE, FALSE, glState, after)
  /\ UNCHANGED OnChangeMaterial
  /\ UNCHANGED <<sceneVars, meshVars, matVars, frameVars, texVars>>

\* the application sets or clears the OnChangeMaterial hook
SetOnChangeMaterial(h) ==
  /\ OnChangeMaterial' = h
  /\ called' = NoCall
  /\ UNCHANGED <<canvas, gl, width, BuiltinPrograms, BuiltinProgramsWithLight,
                 Program2DDrawing, glState>>
  /\ UNCHANGED <<sceneVars, meshVars, matVars, frameVars, texVars>>

\* this.MaterialPrograms[type] / this.MaterialProgramsWithLight[type]: the slot of
\* an array read at any index (undefined, here NoProgram, where nothing was stored)
TableLookup(builtin, external, type) ==
  IF type \in BuiltinIds THEN builtin[type]
  ELSE IF (type - 30) \in 1..Len(external) THEN external[type - 30]
  ELSE NoProgram

\* getGLProgramFromMaterialType lines 1539-1549
getGLProgramFromMaterialType(mattype) ==
  TableLookup(BuiltinPrograms, MaterialPrograms, mattype)

\* setMaterial lines 175-185: the program of the material
MaterialProgram(mat) ==
  IF mat.Lighting
  THEN TableLookup(BuiltinProgramsWithLight, MaterialProgramsWithLight, mat.Type)
  ELSE TableLookup(BuiltinPrograms, MaterialPrograms, mat.Type)

\* what a hook may do to the GL state before it returns or raises
HookWrites(s) == [s EXCEPT !.blend = ~@, !.cull = ~@, !.tex0 = 0]

RunHookUncaught(hook, s) ==
  IF hook = "null" THEN [state |-> s, threw |-> FALSE, hook |-> FALSE]
  ELSE [state |-> HookWrites(s), threw |-> hook = "raises", hook |-> TRUE]

\* setMaterial lines 193-202: the hook is called in a try block that catches all
RunHook(hook, s) ==
  IF hook = "null" THEN [state |-> s, threw |-> FALSE, hook |-> FALSE]
  ELSE [state |-> HookWrites(s), threw |-> FALSE, hook |-> TRUE]

\* the state calls of setMaterial with the units left alone when the material has
\* nothing to bind to them
ApplyMaterialKeepingTextures(s, program, mat) ==
  LET m == mat.flags
      bind1 == m.Tex1.present /\ m.Tex1.Loaded
      bind2 == m.Tex2.present /\ m.Tex2.Loaded
  IN [s EXCEPT
        !.blend = program.blendenabled,
        !.blendFunc = IF program.blendenabled THEN BlendFactors(program) ELSE @,
        !.depthMask = ~(~m.ZWriteEnabled \/ m.noDepthMap),
        !.depthTest = m.ZReadEnabled,
        !.cull = m.BackfaceCulling,
        !.activeTexture = 1,
        !.tex0 = IF bind1 THEN m.Tex1.Texture ELSE @,
        !.wrap = IF bind1 THEN [@ EXCEPT ![m.Tex1.Texture] = m.ClampTexture1] ELSE @,
        !.tex1 = IF bind2 THEN m.Tex2.Texture ELSE @]

\* setMaterial lines 204-278: blend, depth write, depth test, culling, textures
ApplyMaterial(s, program, mat) ==
  LET m == mat.flags
      bind1 == m.Tex1.present /\ m.Tex1.Loaded
      bind2 == m.Tex2.present /\ m.Tex2.Loaded
  IN [s EXCEPT
        !.blend = program.blendenabled,
        !.blendFunc = IF program.blendenabled THEN BlendFactors(program) ELSE @,
        !.depthMask = ~(~m.ZWriteEnabled \/ m.noDepthMap),
        !.depthTest = m.ZReadEnabled,
        !.cull = m.BackfaceCulling,
        !.activeTexture = 1,
        !.tex0 = IF bind1 THEN m.Tex1.Texture ELSE 0,
        !.wrap = IF bind1 THEN [@ EXCEPT ![m.Tex1.Texture] = m.ClampTexture1] ELSE @,
        !.tex1 = IF bind2 THEN m.Tex2.Texture ELSE 0]

NoProgramFoundNever(program) == FALSE

\* setMaterial line 187: program == null
NoProgramFound(program) == ~program.present

\* setMaterial lines 162-279 for a material that is not null: the GL state after
\* the call and what the call did (a call on a null gl raises a TypeError)
SetMaterialResult(hasGl, hook, s, program, mat) ==
  IF GlIsNull(hasGl) \/ NoProgramFound(program)
  THEN [state |-> s, gpu |-> FALSE, threw |-> FALSE, hook |-> FALSE]
  ELSE IF ~hasGl
  THEN [state |-> s, gpu |-> FALSE, threw |-> TRUE, hook |-> FALSE]
  ELSE LET used == [s EXCEPT !.program = program]
           h == RunHook(hook, used)
       IN IF h.threw THEN [state |-> h.state, gpu |-> TRUE, threw |-> TRUE, hook |-> TRUE]
          ELSE [state |-> ApplyMaterial(h.state, program, mat), gpu |-> TRUE,
                threw |-> FALSE, hook |-> h.hook]

setMaterial(mat) ==
  LET program == MaterialProgram(mat)
      r == SetMaterialResult(gl, OnChangeMaterial, glState, program, mat)
  IN
  /\ glState' = r.state
  /\ called' = [Call("setMaterial", FALSE, r.gpu, r.threw, glState, r.state)
                  EXCEPT !.hook = r.hook, !.resolved = program.present, !.mat = mat,
                         !.asNormal =
                            r.state = SetMaterialResult(gl, "returns", glState, program, mat).state]
  /\ UNCHANGED <<canvas, gl, width, BuiltinPrograms, BuiltinProgramsWithLight,
                 Program2DDrawing, OnChangeMaterial>>
  /\ UNCHANGED <<sceneVars, meshVars, matVars, frameVars, texVars>>

\* beginScene lines 1121-1141
beginScene ==
  LET after == IF GlIsNull(gl) THEN glState ELSE [glState EXCEPT !.depthMask = TRUE]
  IN
  /\ glState' = after
  /\ width' = IF GlIsNull(gl) THEN width ELSE ensuresizeok(canvas, gl, width)
  /\ called' = Call("beginScene", FALSE, ~GlIsNull(gl) /\ gl, ~GlIsNull(gl) /\ ~gl, glState, after)
  /\ UNCHANGED <<canvas, gl, BuiltinPrograms, BuiltinProgramsWithLight,
                 Program2DDrawing, OnChangeMaterial>>
  /\ UNCHANGED <<sceneVars, meshVars, matVars, frameVars, texVars>>

\* endScene lines 1150-1160
endScene ==
  /\ called' = Call("endScene", FALSE, ~GlIsNull(gl) /\ gl, ~GlIsNull(gl) /\ ~gl, glState, glState)
  /\ UNCHANGED <<canvas, gl, width, BuiltinPrograms, BuiltinProgramsWithLight,
                 Program2DDrawing, OnChangeMaterial, glState>>
  /\ UNCHANGED <<sceneVars, meshVars, matVars, frameVars, texVars>>

SizeNeverZero(w) == FALSE

\* draw2DRectangle line 798, draw2DImage line 917: this.width == 0 || this.height == 0
SizeIsZero(w) == w = 0

\* draw2DRectangle lines 868-893, draw2DImage lines 1012-1031: the program and the tests
State2D(s, program, doblend) ==
  [s EXCEPT !.program = program, !.depthMask = FALSE, !.depthTest = FALSE,
            !.blend = doblend,
            !.blendFunc = IF doblend THEN "SRC_ALPHA, ONE_MINUS_SRC_ALPHA" ELSE @]

\* gl.getUniformLocation(this.currentGLProgram, "vColor") of line 871: with a
\* program it returns; with null for the program a binding that takes the
\* parameter as non-nullable raises a TypeError, one that takes it as nullable
\* records INVALID_VALUE and returns
GetUniformLocationRaises(program) == IF program.present THEN {FALSE} ELSE BOOLEAN

\* draw2DRectangle(x, y, width, height, color, blend) lines 796-903; w stands for
\* the width and the height asked for. The two buffers of lines 857 and 862 are
\* deleted at lines 900-901, which a call that raises at line 871 does not reach
draw2DRectangle(w, blend) ==
  LET skip == w <= 0 \/ SizeIsZero(width)
      program == Program2DDrawing.Program2DDrawingColorOnly
  IN
  \E raises \in GetUniformLocationRaises(program) :
    LET ran == ~skip /\ gl
        after == IF ~ran THEN glState
                 ELSE IF raises THEN [glState EXCEPT !.program = program]
                 ELSE State2D(glState, program, blend)
        alive == ephemeralBuffers + (IF ran /\ raises THEN 2 ELSE 0)
    IN
    /\ alive <= MaxBuffers
    /\ glState' = after
    /\ ephemeralBuffers' = alive
    /\ called' = Call("draw2DRectangle", FALSE, ran, ~skip /\ (~gl \/ raises), glState, after)
    /\ UNCHANGED <<canvas, gl, width, BuiltinPrograms, BuiltinProgramsWithLight,
                   Program2DDrawing, OnChangeMaterial>>
    /\ UNCHANGED <<sceneVars, meshVars, matVars, frameVars, Textures>>

\* draw2DImage(x, y, width, height, tex, blend) lines 915-1082 with no
\* shaderToUse: the three buffers of lines 997, 1002 and 1007 are deleted at
\* lines 1066-1068, and no call between them takes the program but useProgram
draw2DImage(w, tex, blend) ==
  LET skip == ~tex.present \/ ~tex.Loaded \/ w <= 0 \/ SizeIsZero(width)
      after == IF skip \/ ~gl THEN glState
               ELSE [State2D(glState, Program2DDrawing.Program2DDrawingTextureOnly, blend)
                       EXCEPT !.tex0 = tex.Texture, !.wrap[tex.Texture] = TRUE, !.tex1 = 0,
                              !.activeTexture = 1]
      buffers == IF skip \/ ~gl THEN 0 ELSE 3
  IN
  /\ glState' = after
  /\ ephemeralBuffers' = (ephemeralBuffers + buffers) - buffers
  /\ called' = Call("draw2DImage", FALSE, ~skip /\ gl, ~skip /\ ~gl, glState, after)
  /\ UNCHANGED <<canvas, gl, width, BuiltinPrograms, BuiltinProgramsWithLight,
                 Program2DDrawing, OnChangeMaterial>>
  /\ UNCHANGED <<sceneVars, meshVars, matVars, frameVars, Textures>>

\* the image of texture t arrives: the texture manager's load handler calls
\* finalizeLoadedImageTexture(t) (lines 2082-2129, which raises on a null gl and
\* leaves no texture on the active unit) and marks the texture loaded
loadTexture(t) ==
  /\ ~Textures[t].Loaded
  /\ IF ~gl
     THEN /\ called' = Call("finalizeLoadedImageTexture", FALSE, FALSE, TRUE, glState, glState)
          /\ UNCHANGED <<Textures, glState, sceneVars>>
     ELSE LET after == IF glState.activeTexture = 0 THEN [glState EXCEPT !.tex0 = 0]
                       ELSE [glState EXCEPT !.tex1 = 0]
          IN
          /\ Textures' = [Textures EXCEPT ![t] = LoadedTexture(t)]
          /\ glState' = after
          /\ textureWasLoadedFlag' = TRUE
          /\ loadedSinceTick' = TRUE
          /\ last' = NoTick /\ prev' = NoPrev /\ deletion' = NoDeletion
          /\ called' = Call("finalizeLoadedImageTexture", FALSE, TRUE, FALSE, glState, after)
          /\ UNCHANGED <<RedrawMode, ForceRedrawThisFrame, ActiveCamera, LastViewProj,
                         DeletionList, Parent, CollisionWorld, now,
                         forcePending, drawnViewProj, earliest>>
  /\ UNCHANGED <<canvas, gl, width, BuiltinPrograms, BuiltinProgramsWithLight,
                 Program2DDrawing, OnChangeMaterial>>
  /\ UNCHANGED <<meshVars, matVars, frameVars, ephemeralBuffers>>

\* deleteTexture(tex) lines 1847-1857 for a texture that is not null:
\* gl.deleteTexture takes the texture off the units it is bound to; a call on a
\* null gl raises before the texture object is written
deleteTexture(t) ==
  LET unbound == [glState EXCEPT !.tex0 = IF @ = t THEN 0 ELSE @,
                                 !.tex1 = IF @ = t THEN 0 ELSE @]
      after == IF gl /\ Textures[t].Loaded THEN unbound ELSE glState
  IN
  /\ Textures' = IF gl THEN [Textures EXCEPT ![t] = UnloadedTexture] ELSE Textures
  /\ glState' = after
  /\ called' = Call("deleteTexture", FALSE, gl, ~gl, glState, after)
  /\ UNCHANGED <<canvas, gl, width, BuiltinPrograms, BuiltinProgramsWithLight,
                 Program2DDrawing, OnChangeMaterial>>
  /\ UNCHANGED <<sceneVars, meshVars, matVars, frameVars, ephemeralBuffers>>

\* drawMesh(mesh) lines 143-154 for a mesh of the one mesh buffer, whose material is mat
drawMesh(mat) ==
  LET program == MaterialProgram(mat)
      r == SetMaterialResult(gl, OnChangeMaterial, glState, program, mat)
  IN
  /\ glState' = r.state
  /\ IF r.threw THEN UNCHANGED meshVars ELSE MeshBufferDraw(NotGiven, r.state.program)
  /\ called' = [Call("drawMesh", FALSE, r.gpu \/ (gl /\ ~r.threw), r.threw \/ drew'.threw,
                     glState, r.state)
                  EXCEPT !.hook = r.hook, !.resolved = program.present, !.mat = mat]
  /\ UNCHANGED <<canvas, gl, width, BuiltinPrograms, BuiltinProgramsWithLight,
                 Program2DDrawing, OnChangeMaterial>>
  /\ UNCHANGED <<sceneVars, matVars, frameVars, texVars>>

\* --------------------------------------------------------------- the frame

\* the render modes of CL3D.Scene (flacescene.js:922-957)
RENDER_MODE_SKYBOX == 1
RENDER_MODE_DEFAULT == 0
RENDER_MODE_LIGHTS == 2
RENDER_MODE_CAMERA == 3
RENDER_MODE_TRANSPARENT == 4
RENDER_MODE_2DOVERLAY == 5

\* the modes the nodes of the scenes register themselves with
NodeModes == {RENDER_MODE_SKYBOX, RENDER_MODE_DEFAULT, RENDER_MODE_LIGHTS,
              RENDER_MODE_TRANSPARENT, RENDER_MODE_2DOVERLAY}

\* where the nodes stand on the axis the cameras look along; the cameras stand at 0
LightPositions == {1, 2}
NodePositions == {1, 5}

\* a child of the root node: the mode it registers itself with when it is
\* visible and its absolute position
SceneNode(mode, pos) == [mode |-> mode, Pos |-> pos, Visible |-> TRUE]

\* no node
NoNode == 0

\* this.ActiveCamera.getAbsolutePosition()
CamPos == 0

\* CL3D.Vect3d.prototype.getDistanceFromSQ
getDistanceFromSQ(a, b) == (a - b) * (a - b)

\* the lists drawAll starts from (lines 157-160); the skybox slot is the one of
\* the frame before
ClearedLists(skyBoxSceneNode) ==
  [SkyBoxSceneNode |-> skyBoxSceneNode,
   SceneNodesToRender |-> <<>>,
   SceneNodesToRenderTransparent |-> <<>>,
   LightsToRender |-> <<>>,
   Overlay2DToRender |-> <<>>]

\* registerNodeForRendering(s, mode) lines 424-450
registerNodeForRendering(lists, s, mode) ==
  CASE mode = RENDER_MODE_SKYBOX -> [lists EXCEPT !.SkyBoxSceneNode = s]
    [] mode = RENDER_MODE_DEFAULT ->
         [lists EXCEPT !.SceneNodesToRender = Append(@, s)]
    [] mode = RENDER_MODE_LIGHTS -> [lists EXCEPT !.LightsToRender = Append(@, s)]
    [] mode = RENDER_MODE_CAMERA -> lists
    [] mode = RENDER_MODE_TRANSPARENT ->
         [lists EXCEPT !.SceneNodesToRenderTransparent = Append(@, s)]
    [] mode = RENDER_MODE_2DOVERLAY -> [lists EXCEPT !.Overlay2DToRender = Append(@, s)]
    [] OTHER -> lists

\* this.RootNode.OnRegisterSceneNode(this), line 161: the children register
\* themselves in their order, each if it is visible; the first i children
RECURSIVE OnRegisterSceneNode(_, _, _)
OnRegisterSceneNode(lists, children, i) ==
  IF i = 0 THEN lists
  ELSE LET before == OnRegisterSceneNode(lists, children, i - 1)
       IN IF children[i].Visible
          THEN registerNodeForRendering(before, i, children[i].mode)
          ELSE before

\* the nodes that registered, in the order they did
RECURSIVE Registered(_, _)
Registered(children, i) ==
  IF i = 0 THEN <<>>
  ELSE IF children[i].Visible THEN Append(Registered(children, i - 1), i)
  ELSE Registered(children, i - 1)

NoCompare(children, a, b) == 0

\* the function the lights are sorted with, lines 187-196
LightCompare(children, a, b) ==
  LET distance1 == getDistanceFromSQ(CamPos, children[a].Pos)
      distance2 == getDistanceFromSQ(CamPos, children[b].Pos)
  IN IF distance1 > distance2 THEN 1
     ELSE IF distance1 < distance2 THEN -1
     ELSE 0

NearestFirst(children, a, b) ==
  IF children[a].Pos > children[b].Pos THEN 1
  ELSE IF children[a].Pos < children[b].Pos THEN -1
  ELSE 0

\* the function the transparent nodes are sorted with, lines 252-261
TransparentCompare(children, a, b) ==
  LET distance1 == getDistanceFromSQ(CamPos, children[a].Pos)
      distance2 == getDistanceFromSQ(CamPos, children[b].Pos)
  IN IF distance1 < distance2 THEN 1
     ELSE IF distance1 > distance2 THEN -1
     ELSE 0

Compare(mode, children, a, b) ==
  IF mode = RENDER_MODE_LIGHTS THEN LightCompare(children, a, b)
  ELSE TransparentCompare(children, a, b)

\* Array.prototype.sort with a comparison function: the elements in an order
\* the function agrees with, those it returns 0 for in the order they had.
\* Insert puts s behind the last element that does not compare greater.
RECURSIVE Insert(_, _, _, _)
Insert(sorted, s, mode, children) ==
  IF sorted = <<>> THEN <<s>>
  ELSE IF Compare(mode, children, sorted[Len(sorted)], s) <= 0 THEN Append(sorted, s)
  ELSE Append(Insert(SubSeq(sorted, 1, Len(sorted) - 1), s, mode, children),
              sorted[Len(sorted)])

RECURSIVE sort(_, _, _)
sort(list, mode, children) ==
  IF list = <<>> THEN <<>>
  ELSE Insert(sort(SubSeq(list, 1, Len(list) - 1), mode, children),
              list[Len(list)], mode, children)

\* lines 183-197 and 248-262: the lists are sorted when there is a camera
SortedIfCamera(list, mode, children, cam) ==
  IF cam.present /\ Len(list) > 0 THEN sort(list, mode, children) ELSE list

\* the light data of light node s: its absolute position, its colour, its
\* attenuation and its radius
LightData(s, children) ==
  [node |-> s, Position |-> <<children[s].Pos, 0, 0>>, Color |-> <<s, s + 1, s + 2>>,
   Attenuation |-> s, Radius |-> s + 1]

\* clearDynamicLights lines 1167-1171 (no light of the scenes is directional)
clearDynamicLights == <<>>

\* addDynamicLight lines 1178-1181
addDynamicLight(lights, l) == Append(lights, l)

\* lines 201-202: the render of every light node adds its light data
RECURSIVE RenderLights(_, _, _)
RenderLights(lightsToRender, children, i) ==
  IF i = 0 THEN clearDynamicLights
  ELSE addDynamicLight(RenderLights(lightsToRender, children, i - 1),
                       LightData(lightsToRender[i], children))

\* a number as numerator and denominator
Ratio(num, den) == [num |-> num, den |-> den]

\* this.World.getInverse(mat) and mat.getTransformedVect(p) for a world matrix
\* that moves by world along the first axis; world 0 is the identity
getTransformedVect(world, p) == <<p[1] - world, p[2], p[3]>>

\* setDynamicLightsIntoConstants line 692: for (var i=0; i<4; ++i), counted from 1
LightSlots == 1..4

UnlitConstants(l, world, useOldNormalMappingAttenuationCalculation) ==
  [position |-> <<1, 0, 0, Ratio(1, 1)>>, color |-> <<0, 0, 0, 1>>]

\* setDynamicLightsIntoConstants lines 696-717: the constants of light i
LightConstants(l, world, useOldNormalMappingAttenuationCalculation) ==
  LET vt == getTransformedVect(world, l.Position)
      attenuation == IF useOldNormalMappingAttenuationCalculation
                     THEN Ratio(1, l.Radius * l.Radius)
                     ELSE Ratio(l.Attenuation, 1)
  IN [position |-> <<vt[1], vt[2], vt[3], attenuation>>,
      color    |-> <<l.Color[1], l.Color[2], l.Color[3], 1>>]

\* lines 719-731: a dark light
DarkLight ==
  [position |-> <<1, 0, 0, Ratio(1, 1)>>, color |-> <<0, 0, 0, 1>>]

\* setDynamicLightsIntoConstants lines 672-746: the two arrays given to
\* uniform4fv, as their groups of four; useWorldSpace and useOldAttenuation are
\* useWorldSpacePositionsForLights and useOldNormalMappingAttenuationCalculation
setDynamicLightsIntoConstants(lights, ambientLight, world, useWorldSpace, useOldAttenuation) ==
  LET mat == IF ~useWorldSpace /\ Len(lights) > 0 THEN world ELSE 0
      slot(i) == IF i <= Len(lights)
                 THEN LightConstants(lights[i], mat, useOldAttenuation)
                 ELSE DarkLight
  IN [positionArray |-> [i \in LightSlots |-> slot(i).position],
      colorArray    |-> [i \in LightSlots |-> slot(i).color]
                          \o <<<<ambientLight[1], ambientLight[2], ambientLight[3], 1>>>>]

\* program.locLightPositions != null (line 642): the built-in programs whose
\* vertex shader declares arrLightPositions (lines 2286, 2402, 2461)
HasLightConstants(program) ==
  program.present /\ program.no \in ({10} \cup (15..21))

\* drawWebGlStaticGeometry lines 553, 641-643: the light constants a draw of a
\* device resource with or without tangent and binormal buffers uploads under
\* world matrix world, with program in use
LightUpload(program, lights, ambientLight, world, withTangentsAndBinormals) ==
  IF HasLightConstants(program)
  THEN [valid |-> TRUE,
        constants |-> setDynamicLightsIntoConstants(lights, ambientLight, world,
                         withTangentsAndBinormals, withTangentsAndBinormals)]
  ELSE [valid |-> FALSE]

\* a call of render, in the mode it is made in
Render(mode, s) == [mode |-> mode, node |-> s]

RenderNone(mode, list) == <<>>

\* the loops of lines 201-202, 236-244, 266-274 and 278-281
RenderAll(mode, list) == [i \in 1..Len(list) |-> Render(mode, list[i])]

NoFrame == [valid |-> FALSE]

InitFrame ==
  /\ Children = <<>>
  /\ AmbientLight = <<0, 0, 0>>
  /\ SkyBoxSceneNode = NoNode
  /\ SceneNodesToRender = <<>>
  /\ SceneNodesToRenderTransparent = <<>>
  /\ LightsToRender = <<>>
  /\ Overlay2DToRender = <<>>
  /\ NodeCountRenderedLastTime = 0
  /\ Lights = <<>>
  /\ RendererAmbientLight = <<0, 0, 0>>
  /\ frame = NoFrame

\* this.RootNode.addChild(node) for a node of any kind
addChild(mode, pos) ==
  /\ Len(Children) < MaxChildren
  /\ Children' = Append(Children, SceneNode(mode, pos))
  /\ frame' = NoFrame
  /\ UNCHANGED <<AmbientLight, SkyBoxSceneNode, SceneNodesToRender,
                 SceneNodesToRenderTransparent, LightsToRender, Overlay2DToRender,
                 NodeCountRenderedLastTime, Lights, RendererAmbientLight>>
  /\ UNCHANGED <<sceneVars, meshVars, matVars, rendVars, texVars>>

\* this.RootNode.addChild(node) for a light node
addLight(pos) ==
  /\ Len(Children) < MaxLights
  /\ Children' = Append(Children, SceneNode(RENDER_MODE_LIGHTS, pos))
  /\ frame' = NoFrame
  /\ UNCHANGED <<AmbientLight, SkyBoxSceneNode, SceneNodesToRender,
                 SceneNodesToRenderTransparent, LightsToRender, Overlay2DToRender,
                 NodeCountRenderedLastTime, Lights, RendererAmbientLight>>
  /\ UNCHANGED <<sceneVars, meshVars, matVars, rendVars, texVars>>

\* this.RootNode.addChild(node) for a transparent node
addTransparent(pos) ==
  /\ Len(Children) < MaxTransparent
  /\ Children' = Append(Children, SceneNode(RENDER_MODE_TRANSPARENT, pos))
  /\ frame' = NoFrame
  /\ UNCHANGED <<AmbientLight, SkyBoxSceneNode, SceneNodesToRender,
                 SceneNodesToRenderTransparent, LightsToRender, Overlay2DToRender,
                 NodeCountRenderedLastTime, Lights, RendererAmbientLight>>
  /\ UNCHANGED <<sceneVars, meshVars, matVars, rendVars, texVars>>

\* node.Visible = visible for child s of the root node
SetVisible(s, visible) ==
  /\ s \in 1..Len(Children)
  /\ Children[s].Visible # visible
  /\ Children' = [Children EXCEPT ![s].Visible = visible]
  /\ frame' = NoFrame
  /\ UNCHANGED <<AmbientLight, SkyBoxSceneNode, SceneNodesToRender,
                 SceneNodesToRenderTransparent, LightsToRender, Overlay2DToRender,
                 NodeCountRenderedLastTime, Lights, RendererAmbientLight>>
  /\ UNCHANGED <<sceneVars, meshVars, matVars, rendVars, texVars>>

\* scene.AmbientLight = color
SetAmbientLight(color) ==
  /\ AmbientLight # color
  /\ AmbientLight' = color
  /\ frame' = NoFrame
  /\ UNCHANGED <<Children, SkyBoxSceneNode, SceneNodesToRender,
                 SceneNodesToRenderTransparent, LightsToRender, Overlay2DToRender,
                 NodeCountRenderedLastTime, Lights, RendererAmbientLight>>
  /\ UNCHANGED <<sceneVars, meshVars, matVars, rendVars, texVars>>

\* drawAll(renderer) lines 154-287.  No node is culled (UseCulling is false,
\* line 61).  world and withTangentsAndBinormals are the world matrix and the
\* vertex format of a mesh buffer a node draws in the frame with a program that
\* has light constants (drawWebGlStaticGeometry lines 640-643).
drawAll(world, withTangentsAndBinormals) ==
  LET lists == OnRegisterSceneNode(ClearedLists(SkyBoxSceneNode), Children, Len(Children))
      lightsToRender ==
        SortedIfCamera(lists.LightsToRender, RENDER_MODE_LIGHTS, Children, ActiveCamera)
      transparent ==
        SortedIfCamera(lists.SceneNodesToRenderTransparent, RENDER_MODE_TRANSPARENT,
                       Children, ActiveCamera)
      lights == RenderLights(lightsToRender, Children, Len(lightsToRender))
      rendered ==
        (IF ActiveCamera.present THEN <<Render(RENDER_MODE_CAMERA, NoNode)>> ELSE <<>>)
        \o (IF lists.SkyBoxSceneNode # NoNode
            THEN <<Render(RENDER_MODE_SKYBOX, lists.SkyBoxSceneNode)>> ELSE <<>>)
        \o RenderAll(RENDER_MODE_LIGHTS, lightsToRender)
        \o RenderAll(RENDER_MODE_DEFAULT, lists.SceneNodesToRender)
        \o RenderAll(RENDER_MODE_TRANSPARENT, transparent)
        \o RenderAll(RENDER_MODE_2DOVERLAY, lists.Overlay2DToRender)
  IN
  /\ SkyBoxSceneNode' = lists.SkyBoxSceneNode
  /\ SceneNodesToRender' = lists.SceneNodesToRender
  /\ SceneNodesToRenderTransparent' = transparent
  /\ LightsToRender' = lightsToRender
  /\ Overlay2DToRender' = lists.Overlay2DToRender
  /\ Lights' = lights
  /\ RendererAmbientLight' = AmbientLight
  /\ NodeCountRenderedLastTime' =
       Len(lightsToRender) + Len(lists.SceneNodesToRender) + Len(transparent)
         + Len(lists.Overlay2DToRender)
  /\ LastViewProj' = StoreViewMatrixForRedrawCheck(ActiveCamera, LastViewProj)
  /\ drawnViewProj' = IF ActiveCamera.present THEN ViewProj(ActiveCamera) ELSE drawnViewProj
  /\ last' = NoTick /\ prev' = NoPrev /\ deletion' = NoDeletion
  /\ frame' = [valid      |-> TRUE,
               cam        |-> ActiveCamera.present,
               registered |-> Registered(Children, Len(Children)),
               stale      |-> SkyBoxSceneNode,
               rendered   |-> rendered,
               world      |-> world,
               tangents   |-> withTangentsAndBinormals,
               upload     |-> setDynamicLightsIntoConstants(lights, AmbientLight, world,
                                 withTangentsAndBinormals, withTangentsAndBinormals)]
  /\ UNCHANGED <<Children, AmbientLight>>
  /\ UNCHANGED <<RedrawMode, ForceRedrawThisFrame, ActiveCamera, DeletionList, Parent,
                 CollisionWorld, textureWasLoadedFlag, now, forcePending,
                 loadedSinceTick, earliest>>
  /\ UNCHANGED <<meshVars, matVars, rendVars, texVars>>

\* drawMesh(mesh) for a mesh of the one mesh buffer, whose material is mat and
\* whose device resource has, or has not, a tangent and a binormal buffer, drawn
\* with this.World set to world (setWorld lines 1276-1280)
drawMeshInWorld(mat, world, withTangentsAndBinormals) ==
  LET program == MaterialProgram(mat)
      r == SetMaterialResult(gl, OnChangeMaterial, glState, program, mat)
      c == [Call("drawMesh", FALSE, r.gpu \/ (gl /\ ~r.threw), r.threw \/ drew'.threw,
                 glState, r.state)
              EXCEPT !.hook = r.hook, !.resolved = program.present, !.mat = mat]
      upload == IF r.threw \/ drew'.threw \/ drew'.path = "no context" THEN [valid |-> FALSE]
                ELSE LightUpload(r.state.program, Lights, RendererAmbientLight, world,
                                 withTangentsAndBinormals)
  IN
  /\ glState' = r.state
  /\ IF r.threw THEN UNCHANGED meshVars ELSE MeshBufferDraw(NotGiven, r.state.program)
  /\ called' = [world |-> world, tangents |-> withTangentsAndBinormals, upload |-> upload] @@ c
  /\ UNCHANGED <<canvas, gl, width, BuiltinPrograms, BuiltinProgramsWithLight,
                 Program2DDrawing, OnChangeMaterial>>
  /\ UNCHANGED <<sceneVars, matVars, frameVars, texVars>>

\* ------------------------------------------------------- specifications

\* the renderer after init() on a canvas that gives a context, all shaders compiling
InitRendererReady ==
  /\ canvas = Canvas(640)
  /\ gl = TRUE
  /\ width = 640
  /\ BuiltinPrograms =
       SetFallbackMaterials([f \in BuiltinIds |-> ExplicitUnlit(f, {})], UnlitPrograms({}).fallbackShader)
  /\ BuiltinProgramsWithLight =
       SetFallbackMaterials([f \in BuiltinIds |-> ExplicitLit(f, {})], UnlitPrograms({}).fallbackShader)
  /\ Program2DDrawing = Programs2D({})
  /\ OnChangeMaterial = "null"
  /\ glState = InitialGLState(LitPrograms({}).programStandardMaterial)
  /\ called = NoCall

\* no texture is loaded
InitTextures ==
  /\ Textures = [t \in TextureObjects |-> UnloadedTexture]
  /\ ephemeralBuffers = 0

Init == InitScene /\ InitMesh /\ InitMaterial /\ InitRendererReady /\ InitFrame /\ InitTextures
\* the scene, the mesh buffer and a renderer that init() has not been called on
InitConstructed ==
  InitScene /\ CollisionWorld = NoWorld /\ InitMesh /\ InitMaterial /\ InitRenderer /\ InitFrame
  /\ InitTextures
\* a scene without a collision world
InitNoWorld == Init /\ CollisionWorld = NoWorld

\* the scene with a deletion queue of one slot: every call that bears on the redraw decision
NextRedraw ==
  \/ \E mode \in {0, 1, 2} : setRedrawMode(mode)
  \/ \E c \in Cameras \cup {NoCamera} : setActiveCamera(c)
  \/ forceRedrawNextFrame
  \/ finalizeLoadedImageTexture
  \/ (DeletionList = <<>> /\ addToDeletionQueue(1, 0))
  \/ AdvanceClock
  \/ \E anim \in BOOLEAN, script \in BOOLEAN : Tick(anim, script)

\* deferred deletion: queueing, the clock and the ticks (of a scene no animator changes)
NextDeletion ==
  \/ \E n \in Nodes, d \in 0..MaxDelay :
       Len(DeletionList) < MaxQueue - 1 /\ addToDeletionQueue(n, d)
  \/ AdvanceClock
  \/ Tick(FALSE, FALSE)

\* the deletion queue, filled (with the nodes in turn) and cleared
NextQueue ==
  \/ \E d \in 0..MaxDelay : addToDeletionQueue((Len(DeletionList) % NumNodes) + 1, d)
  \/ AdvanceClock
  \/ \E deleteAll \in BOOLEAN : ClearDeletionList(deleteAll)

\* one mesh buffer, rewritten, flagged and drawn; its owner flags it for a full
\* update (with or without the positions flag) or clears both flags
NextMeshBuffer ==
  \/ \E n \in 0..MaxVerts, t \in 0..MaxTris, v \in Variants :
       SetGeometry(VertexList(n, v), IndexList(t, v))
  \/ \E p \in BOOLEAN : SetUpdateFlags(p, TRUE)
  \/ SetUpdateFlags(FALSE, FALSE)
  \/ \E n \in {NotGiven, 3} : drawMeshBuffer(n)

\* one mesh buffer, flagged and drawn by a renderer before and after its init,
\* with and without a context
NextMeshContext ==
  \/ \E c \in BOOLEAN : init(640, c, {})
  \/ \E v \in Variants : SetGeometry(VertexList(1, v), IndexList(1, v))
  \/ \E p \in BOOLEAN, u \in BOOLEAN : SetUpdateFlags(p, u)
  \/ drawMeshBuffer(NotGiven)

\* the textures a material of the texture specification refers to
TextureRefs(textures) == {NoTexture} \cup {TextureOf(textures, t) : t \in TextureObjects}

\* textures loaded, bound by materials and 2D images, and deleted
NextTextures ==
  \/ \E c \in BOOLEAN : init(640, c, {})
  \/ \E t \in TextureObjects : loadTexture(t)
  \/ \E t \in TextureObjects : deleteTexture(t)
  \/ \E type \in {EMT_SOLID, 30}, tex1 \in TextureRefs(Textures), tex2 \in TextureRefs(Textures) :
       setMaterial(MaterialWith(type, tex1, tex2))
  \/ \E t \in TextureObjects : draw2DImage(32, TextureOf(Textures, t), FALSE)

\* registration of external material types
NextMaterial ==
  \E vs \in BOOLEAN, fs \in BOOLEAN, l \in BOOLEAN, b \in BOOLEAN : createMaterialType(vs, fs, l, b)

\* the renderer: init with up to MaxFailures sources that do not compile
FailingUpToTwo == {{}} \cup {{a, b} : a, b \in Sources}
NextInit ==
  \E w \in {0, 640}, c \in BOOLEAN, failing \in FailingUpToTwo : init(w, c, failing)

\* the sets of failing sources the renderer is used with
FailingSets ==
  {{}, {"fs_shader_onlyfirsttexture_gouraud"}, {"vs_shader_normaltransform_with_light"}}

\* the renderer, initialised once and then called
NextRenderer ==
  \/ \E c \in BOOLEAN, failing \in FailingSets : init(640, c, failing)
  \/ \E h \in {"null", "returns", "raises"} : SetOnChangeMaterial(h)
  \/ \E mat \in Materials : setMaterial(mat)
  \/ beginScene
  \/ endScene
  \/ \E w \in {0, 32} : draw2DRectangle(w, FALSE)
  \/ \E t \in {NoTexture, Texture(FALSE, 1), Texture(TRUE, 2)} : draw2DImage(32, t, TRUE)
  \/ \E mat \in Materials : drawMesh(mat)
  \/ drawMeshBuffer(NotGiven)

\* the camera the frames are drawn with
FrameCamera == [present |-> TRUE, Projection |-> Identity, ViewMatrix |-> Identity]

\* a scene of lights, drawn
NextLights ==
  \/ \E pos \in LightPositions : addLight(pos)
  \/ \E c \in {NoCamera, FrameCamera} : setActiveCamera(c)
  \/ \E color \in {<<0, 0, 0>>, <<3, 4, 5>>} : SetAmbientLight(color)
  \/ \E world \in {0, 1}, t \in BOOLEAN : drawAll(world, t)

\* the materials of the lit draws: lit and unlit solid, lit normal map
LitMaterials ==
  {Material(EMT_SOLID, TRUE, 1), Material(EMT_SOLID, FALSE, 1),
   Material(EMT_NORMAL_MAP_SOLID, TRUE, 1), Material(EMT_TRANSPARENT_ADD_COLOR, TRUE, 2)}

\* a scene of up to two lights, drawn, and a mesh drawn with the lights of the frame
NextLitDraw ==
  \/ \E pos \in LightPositions : Len(Children) < 2 /\ addLight(pos)
  \/ drawAll(0, FALSE)
  \/ \E mat \in LitMaterials, world \in {0, 1}, t \in BOOLEAN : drawMeshInWorld(mat, world, t)

\* the sets of failing sources of the renderers the 2D draws are made on
FailingSets2D == {{}, {"fs_shader_simplecolor"}, {"vs_shader_2ddrawing_texture"}}

\* 2D draws on renderers whose 2D programs were built or not
NextDraw2D ==
  \/ \E w \in {0, 640}, c \in BOOLEAN, failing \in FailingSets2D : init(w, c, failing)
  \/ \E t \in TextureObjects : loadTexture(t)
  \/ \E w \in {0, 32}, blend \in BOOLEAN : draw2DRectangle(w, blend)
  \/ \E t \in TextureObjects, w \in {0, 32}, blend \in BOOLEAN :
       draw2DImage(w, TextureOf(Textures, t), blend)

\* a scene of nodes of all kinds, hidden and drawn
NextFrame ==
  \/ \E mode \in NodeModes : addChild(mode, 1)
  \/ \E s \in 1..MaxChildren : SetVisible(s, FALSE)
  \/ setActiveCamera(FrameCamera)
  \/ drawAll(0, FALSE)

\* a scene of transparent nodes, drawn
NextTransparent ==
  \/ \E pos \in NodePositions : addTransparent(pos)
  \/ \E c \in {NoCamera, FrameCamera} : setActiveCamera(c)
  \/ drawAll(0, FALSE)

vars == <<sceneVars, meshVars, matVars, rendVars, frameVars, texVars>>

SpecRedraw == Init /\ [][NextRedraw]_vars
SpecDeletion == Init /\ [][NextDeletion]_vars
SpecQueue == InitNoWorld /\ [][NextQueue]_vars
SpecMeshBuffer == InitNoWorld /\ [][NextMeshBuffer]_vars
SpecMaterial == InitNoWorld /\ [][NextMaterial]_vars
SpecInit == InitConstructed /\ [][NextInit]_vars
SpecRenderer == InitConstructed /\ [][NextRenderer]_vars
SpecLights == InitNoWorld /\ [][NextLights]_vars
SpecFrame == InitNoWorld /\ [][NextFrame]_vars
SpecTransparent == InitNoWorld /\ [][NextTransparent]_vars
SpecLitDraw == InitNoWorld /\ [][NextLitDraw]_vars
SpecDraw2D == InitConstructed /\ [][NextDraw2D]_vars
SpecTextures == InitConstructed /\ [][NextTextures]_vars
SpecMeshContext == InitConstructed /\ [][NextMeshContext]_vars

\* ------------------------------------------------- claims: redraw decision

\* what the claims call "the view is unchanged": an active camera whose
\* Projection x View equals the one of the last frame drawn with a camera
\* (the identity before any frame was drawn, as LastViewProj starts)
ViewChanged(t) == ~t.viewSame
\* the animate/deletion aggregate, or a texture having finished loading
MeshOrSceneChanged(t) == t.anim \/ t.deleted \/ t.tex
\* nothing but a pending force could ask for a redraw under a suppressing policy
Quiet(t) ==
  /\ t.cam /\ t.viewSame
  /\ ~t.anim /\ ~t.deleted /\ ~t.tex /\ ~t.script

\* C1: with the mode set to the public constant CL3D.Scene.REDRAW_WHEN_CAM_MOVED,
\* an active camera whose Projection x View is unchanged since the last redraw,
\* no forced redraw, no finished texture load (and no scripting request),
\* doAnimate returns false.
C1_CamMovedConstantSuppresses ==
  (/\ last.valid
   /\ last.mode = REDRAW_WHEN_CAM_MOVED
   /\ last.cam /\ last.viewSame
   /\ ~last.forced /\ ~last.tex /\ ~last.script)
  => ~last.ret

\* C2: under the camera-moved-only policy (RedrawMode 0) with an active camera,
\* when one tick redraws and on the next tick the camera's Projection x View is
\* unchanged, nothing in the scene changed, no texture finished loading and no
\* redraw was forced or requested, doAnimate returns false on that next tick.
C2_SecondTickSuppressed ==
  (/\ last.valid /\ prev.valid
   /\ prev.ret /\ prev.cam
   /\ last.mode = MODE_CAM_MOVED
   /\ Quiet(last) /\ ~last.forced)
  => ~last.ret

C2_Witness ==
  /\ last.valid /\ prev.valid
  /\ prev.ret /\ prev.cam
  /\ last.mode = MODE_CAM_MOVED
  /\ Quiet(last) /\ ~last.forced
  /\ drawnViewProj # Identity
  /\ ~last.ret

\* C3: a tick that starts with a forced redraw pending returns true; the tick
\* right after a forced redraw, with camera and scene still unchanged and a
\* suppressing policy (RedrawMode 0 or 1), returns false again.
C3_ForceIsOneShot ==
  /\ (last.valid /\ last.forced) => last.ret
  /\ (/\ last.valid /\ prev.valid
      /\ prev.forced /\ prev.ret
      /\ last.mode \in {MODE_CAM_MOVED, MODE_SCENE_CHANGED}
      /\ Quiet(last))
     => ~last.ret

C3_Witness ==
  /\ last.valid /\ prev.valid
  /\ prev.forced /\ prev.ret
  /\ last.mode \in {MODE_CAM_MOVED, MODE_SCENE_CHANGED}
  /\ Quiet(last)
  /\ ~last.ret

C5_DetachedAtOrAfterDeadline ==
  last.valid =>
    \A n \in Nodes : Parent[n] <=> (earliest[n] = 0 \/ now < earliest[n])

\* C5 as the code has it: after every tick, a queued node is still attached iff the
\* tick's clock value is at most its deadline t+d (it is detached on the first
\* tick whose clock value is strictly after t+d), and a detached node's
\* selector is not in the collision world.
C5_DetachedAfterDeadline ==
  last.valid =>
    \A n \in Nodes :
      /\ Parent[n] <=> (earliest[n] = 0 \/ now <= earliest[n])
      /\ (~Parent[n] /\ CollisionWorld.present) => n \notin CollisionWorld.selectors

C5_Witness ==
  /\ last.valid
  /\ \E n \in Nodes :
       /\ earliest[n] # 0 /\ now = earliest[n] + 1
       /\ ~Parent[n]
       /\ Selector[n] /\ CollisionWorld.present
  /\ \E m \in Nodes : earliest[m] # 0 /\ now = earliest[m] /\ Parent[m]

\* ------------------------------------------------------ claims: mesh buffer

\* the data of the device resource, whichever object carries it
DeviceData(rna) ==
  [positionData |-> rna.positionData, texcoordsData |-> rna.texcoordsData,
   texcoordsData2 |-> rna.texcoordsData2, normalData |-> rna.normalData,
   colorData |-> rna.colorData, indexData |-> rna.indexData,
   indexCount |-> rna.indexCount, vertexCount |-> rna.vertexCount]
\* what createRendererNativeArray makes of the buffer's present data
FromScratch == NewNativeArray(Vertices, Indices, 1)
\* s is the beginning of t
IsPrefix(s, t) == Len(s) <= Len(t) /\ \A i \in 1..Len(s) : s[i] = t[i]
\* the draw that has just happened was a size-preserving update
SameSizeUpdate ==
  /\ drew.valid /\ drew.path = "update"
  /\ drew.before.vertexCount = Len(Vertices)
  /\ drew.before.indexCount = Len(Indices)
\* the draw that has just happened was an update of a buffer that has grown
GrownUpdate ==
  /\ drew.valid /\ drew.path = "update"
  /\ (drew.before.vertexCount < Len(Vertices) \/ drew.before.indexCount < Len(Indices))

\* C6: a draw (no index count given) of a buffer with nonempty vertex and index
\* lists and no device resource creates the resource and draws exactly
\* len(Indices) index references, and the device index list is the buffer's with
\* the 2nd and 3rd index of every triangle swapped.
C6_CreateDrawsRewound ==
  (drew.valid /\ drew.path = "create" /\ drew.given = NotGiven
     /\ Len(Vertices) > 0 /\ Len(Indices) > 0)
  => /\ RendererNativeArray.present
     /\ drew.draw.count = Len(Indices)
     /\ Len(drew.draw.refs) = Len(Indices)
     /\ drew.draw.refs = RendererNativeArray.indexData
     /\ \A k \in 0..((Len(Indices) \div 3) - 1) :
          /\ drew.draw.refs[3 * k + 1] = Indices[3 * k + 1]
          /\ drew.draw.refs[3 * k + 2] = Indices[3 * k + 3]
          /\ drew.draw.refs[3 * k + 3] = Indices[3 * k + 2]

\* C6 happens: a created resource of two triangles or more whose swap is visible
C6_Witness ==
  /\ drew.valid /\ drew.path = "create" /\ drew.given = NotGiven
  /\ Len(Vertices) > 0 /\ Len(Indices) >= 6
  /\ Indices[2] # Indices[3]
  /\ drew.draw.count = Len(Indices)

C9_FailureReturnsSentinel ==
  (created.valid /\ (~created.vsCompiles \/ ~created.fsCompiles \/ ~created.links))
  => /\ created.ret = -1
     /\ MinExternalMaterialTypeId = created.before
     /\ Len(MaterialPrograms) = created.before - 30
     /\ Len(MaterialProgramsWithLight) = created.before - 30

\* C10: the ids successful calls return are strictly increasing and above the
\* built-in range, and a failed call consumes no id: a successful call returns
\* the id that follows the last successfully returned one.
C10_IdsFollowLastSuccess ==
  created.valid
  => /\ (created.ret # -1 => created.ret > 30 /\ created.ret > created.prevRet)
     /\ ((created.vsCompiles /\ created.fsCompiles /\ created.links)
           => created.ret = created.prevGood + 1)
     /\ ((~created.vsCompiles \/ ~created.fsCompiles \/ ~created.links)
           => MinExternalMaterialTypeId = created.before)

\* the slots initWebGL assigns no built-in program to
UnassignedUnlit == {f \in BuiltinIds : ~ExplicitUnlit(f, {}).present}
UnassignedLit == {f \in BuiltinIds : ~ExplicitLit(f, {}).present}

\* C11: after the renderer is initialised every material type id below 30
\* resolves to a program in the unlit and in the lit table, and a slot without
\* a built-in program holds the fallback program.
C11_EverySlotResolves ==
  (called.valid /\ called.op = "init" /\ called.ret)
  => /\ \A f \in BuiltinIds :
          BuiltinPrograms[f].present /\ BuiltinProgramsWithLight[f].present
     /\ \A f \in UnassignedUnlit : BuiltinPrograms[f].no = 1
     /\ \A f \in UnassignedLit : BuiltinProgramsWithLight[f].no = 1

\* C12: setMaterial with a material whose type and lighting resolve to no
\* program, a type outside both tables included, raises nothing, leaves the bound
\* program, the blend, depth and cull state and both texture bindings as they
\* were and does not invoke the OnChangeMaterial hook.
C12_UnresolvedIsNoOp ==
  (called.valid /\ called.op = "setMaterial" /\ ~called.resolved)
  => ~called.threw /\ called.kept /\ ~called.hook /\ ~called.gpu

\* an unresolved type outside the tables, with a context, a hook and a GL state
\* the material would change
C12_Witness ==
  /\ called.valid /\ called.op = "setMaterial" /\ ~called.resolved
  /\ called.mat.Type \notin BuiltinIds
  /\ gl /\ OnChangeMaterial # "null"
  /\ glState.program.present
  /\ ApplyMaterial(glState, glState.program, called.mat) # glState

\* C13: when the OnChangeMaterial hook raises during setMaterial the exception
\* does not reach the caller, and the blend, depth write, depth test, cull and
\* texture state are applied as they are when the hook returns normally.
C13_HookFailureIsSwallowed ==
  (called.valid /\ called.op = "setMaterial" /\ OnChangeMaterial = "raises")
  => /\ ~called.threw
     /\ called.asNormal
     /\ (gl /\ called.resolved)
          => /\ called.hook
             /\ glState = ApplyMaterial(glState, glState.program, called.mat)
             /\ glState.program = MaterialProgram(called.mat)

\* the hook raised in a call that changed the GL state
C13_Witness ==
  /\ called.valid /\ called.op = "setMaterial" /\ OnChangeMaterial = "raises"
  /\ called.hook /\ ~called.kept
  /\ glState.blend /\ glState.tex1 # 0

\* C18: when the canvas gives no WebGL context init returns false, and the calls
\* of setMaterial, drawMesh, drawMeshBuffer, beginScene, endScene,
\* draw2DRectangle and draw2DImage that follow issue no WebGL call and raise
\* nothing.
C18_NoContextIsInert ==
  (canvas.present /\ ~gl)
  => /\ called.valid => ~called.gpu /\ ~called.threw
     /\ (called.valid /\ called.op = "init") => ~called.ret
     /\ drew.valid => drew.path = "no context" /\ ~drew.threw /\ drew.draw = NoGeometry
     /\ glState = DefaultGLState
     /\ RendererNativeArray = NoArray
     /\ width = 0

\* a mesh drawn on a renderer whose init found no context
C18_Witness ==
  /\ canvas.present /\ ~gl
  /\ called.valid /\ called.op = "drawMesh" /\ called.mat.Type = EMT_SOLID
  /\ drew.valid

\* C20: drawing a mesh buffer whose vertex list or index list is empty draws no
\* geometry and raises no error, whatever its device resource and its flags are:
\* no device resource is created for it, and a buffer that was drawn with
\* geometry, emptied and flagged for update does not draw its old geometry.
C20_EmptyDrawsNothing ==
  (drew.valid /\ (Len(Vertices) = 0 \/ Len(Indices) = 0))
  => /\ ~drew.threw
     /\ drew.draw.refs = <<>>
     /\ ~drew.before.present => ~RendererNativeArray.present

\* the old geometry of an emptied buffer is what the second part is about
C20_EmptiedDrawsNothing ==
  (drew.valid /\ drew.before.present /\ (Len(Vertices) = 0 \/ Len(Indices) = 0))
  => drew.draw.refs = <<>>

\* the nodes drawAll rendered in a mode, in the order it rendered them
RenderedNodes(mode) ==
  LET sel == SelectSeq(frame.rendered, LAMBDA r : r.mode = mode)
  IN [i \in 1..Len(sel) |-> sel[i].node]

\* the nodes that registered in a mode, in the order they registered
RegisteredNodes(mode) == SelectSeq(frame.registered, LAMBDA n : Children[n].mode = mode)

\* the distance of a node from the camera, squared
Distance(n) == getDistanceFromSQ(CamPos, Children[n].Pos)

\* where a node stands in a list without repetitions
PlaceIn(list, n) == CHOOSE i \in 1..Len(list) : list[i] = n

Elements(list) == {list[i] : i \in 1..Len(list)}

\* C14: with an active camera drawAll renders the registered transparent nodes
\* farthest from the camera first, and transparent nodes at the same distance
\* in the order they registered.
C14_TransparentFarthestFirst ==
  (frame.valid /\ frame.cam)
  => LET t == RenderedNodes(RENDER_MODE_TRANSPARENT)
         r == RegisteredNodes(RENDER_MODE_TRANSPARENT)
     IN /\ Len(t) = Len(r)
        /\ Elements(t) = Elements(r)
        /\ \A i, j \in 1..Len(t) :
              i < j => /\ Distance(t[i]) >= Distance(t[j])
                       /\ Distance(t[i]) = Distance(t[j]) => PlaceIn(r, t[i]) < PlaceIn(r, t[j])

\* nodes at distances 1, 5, 5: the two at 5 first, in their order, then the one at 1
C14_Witness ==
  /\ frame.valid /\ frame.cam
  /\ Len(Children) = 3
  /\ Children[1].Pos = 1 /\ Children[2].Pos = 5 /\ Children[3].Pos = 5
  /\ RenderedNodes(RENDER_MODE_TRANSPARENT) = <<2, 3, 1>>

\* the light a slot of the uploaded arrays carries (the colour of light n starts with n)
SlotLight(i) == frame.upload.colorArray[i][1]

\* light a comes before light b: it is nearer, or as near and registered earlier
ComesBefore(a, b) ==
  \/ Distance(a) < Distance(b)
  \/ Distance(a) = Distance(b) /\ PlaceIn(frame.registered, a) < PlaceIn(frame.registered, b)

\* C15: with an active camera and more than 4 point lights registered, the 4
\* light slots uploaded for the draws of the frame hold the 4 lights nearest to
\* the camera, nearest first and lights at the same distance in the order they
\* registered; the other lights are dropped and nothing is raised.
C15_FourNearestLights ==
  (frame.valid /\ frame.cam /\ Len(RegisteredNodes(RENDER_MODE_LIGHTS)) > 4)
  => LET r == Elements(RegisteredNodes(RENDER_MODE_LIGHTS))
         slots == {SlotLight(i) : i \in LightSlots}
     IN /\ slots \subseteq r
        /\ Cardinality(slots) = 4
        /\ \A i, j \in LightSlots : i < j => ComesBefore(SlotLight(i), SlotLight(j))
        /\ \A n \in r \ slots : \A i \in LightSlots : ComesBefore(SlotLight(i), n)
        /\ \A i \in LightSlots :
              frame.upload.colorArray[i] = <<SlotLight(i), SlotLight(i) + 1, SlotLight(i) + 2, 1>>

\* five lights at 2, 2, 1, 2, 1: the slots hold lights 3, 5, 1 and 2
C15_Witness ==
  /\ frame.valid /\ frame.cam
  /\ Len(Children) = 5
  /\ \A n \in {1, 2, 4} : Children[n].Pos = 2
  /\ \A n \in {3, 5} : Children[n].Pos = 1
  /\ <<SlotLight(1), SlotLight(2), SlotLight(3), SlotLight(4)>> = <<3, 5, 1, 2>>

\* C16: for any number n of point lights in the list of the renderer
\* setDynamicLightsIntoConstants uploads 4 slots of position and attenuation and
\* 5 slots of colour: slot i below min(n, 4) carries light i of the list, every
\* other of the 4 slots a light of colour zero, the 5th colour slot the ambient
\* colour.
C16_LightPacking ==
  frame.valid
  => LET n == Len(Lights)
         moved == IF frame.tangents \/ n = 0 THEN 0 ELSE frame.world
     IN /\ DOMAIN frame.upload.positionArray = 1..4
        /\ DOMAIN frame.upload.colorArray = 1..5
        /\ \A i \in 1..4 :
              /\ Len(frame.upload.positionArray[i]) = 4
              /\ Len(frame.upload.colorArray[i]) = 4
              /\ i <= n =>
                   /\ SubSeq(frame.upload.colorArray[i], 1, 3) = Lights[i].Color
                   /\ frame.upload.positionArray[i][1] = Lights[i].Position[1] - moved
                   /\ frame.upload.positionArray[i][4] =
                        IF frame.tangents THEN Ratio(1, Lights[i].Radius * Lights[i].Radius)
                        ELSE Ratio(Lights[i].Attenuation, 1)
              /\ i > n => SubSeq(frame.upload.colorArray[i], 1, 3) = <<0, 0, 0>>
        /\ SubSeq(frame.upload.colorArray[5], 1, 3) = RendererAmbientLight

\* two lights, an ambient colour and a buffer whose world matrix is not the identity
C16_Witness ==
  /\ frame.valid /\ Len(Lights) = 2
  /\ RendererAmbientLight = <<3, 4, 5>>
  /\ frame.world = 1 /\ ~frame.tangents

\* the place of a mode in the order of the passes
Pass(mode) ==
  CASE mode = RENDER_MODE_CAMERA -> 1
    [] mode = RENDER_MODE_SKYBOX -> 2
    [] mode = RENDER_MODE_LIGHTS -> 3
    [] mode = RENDER_MODE_DEFAULT -> 4
    [] mode = RENDER_MODE_TRANSPARENT -> 5
    [] mode = RENDER_MODE_2DOVERLAY -> 6

\* C17: every drawAll renders the active camera, then the skybox, then the
\* lights, then the opaque nodes, then the transparent nodes, then the 2D
\* overlays, these in the order they registered: no node of a later category
\* before a node of an earlier one, and no category skipped.
C17_PassesInOrder ==
  frame.valid
  => /\ \A i, j \in 1..Len(frame.rendered) :
          i < j => Pass(frame.rendered[i].mode) <= Pass(frame.rendered[j].mode)
     /\ RenderedNodes(RENDER_MODE_2DOVERLAY) = RegisteredNodes(RENDER_MODE_2DOVERLAY)
     /\ frame.cam => Len(RenderedNodes(RENDER_MODE_CAMERA)) = 1
     /\ \A mode \in NodeModes \ {RENDER_MODE_SKYBOX} :
          Elements(RenderedNodes(mode)) = Elements(RegisteredNodes(mode))
     /\ LET sky == RegisteredNodes(RENDER_MODE_SKYBOX)
        IN sky # <<>> => RenderedNodes(RENDER_MODE_SKYBOX) = <<sky[Len(sky)]>>

\* an overlay, a transparent node and a skybox registered in this order and
\* rendered, after the camera, in the opposite one
C17_Witness ==
  /\ frame.valid /\ frame.cam
  /\ frame.registered = <<1, 2, 3>>
  /\ Children[1].mode = RENDER_MODE_2DOVERLAY
  /\ Children[2].mode = RENDER_MODE_TRANSPARENT
  /\ Children[3].mode = RENDER_MODE_SKYBOX
  /\ frame.rendered = <<Render(RENDER_MODE_CAMERA, NoNode), Render(RENDER_MODE_SKYBOX, 3),
                         Render(RENDER_MODE_TRANSPARENT, 2), Render(RENDER_MODE_2DOVERLAY, 1)>>

\* C19: every drawAll starts from empty lists and an empty skybox slot: a node
\* that registered for an earlier frame and does not register for this one is
\* not rendered in this one.
C19_OnlyRegisteredRendered ==
  frame.valid
  => \A i \in 1..Len(frame.rendered) :
       frame.rendered[i].mode # RENDER_MODE_CAMERA
         => frame.rendered[i].node \in Elements(frame.registered)

\* the lists, unlike the skybox slot, hold the nodes of this frame only
C19_ListsOfThisFrame ==
  frame.valid
  => \A i \in 1..Len(frame.rendered) :
       frame.rendered[i].mode \notin {RENDER_MODE_CAMERA, RENDER_MODE_SKYBOX}
         => frame.rendered[i].node \in Elements(frame.registered)

\* ------------------------------------------- claims: mesh buffer updates

\* the draw that has just happened took the update path with vertex and index
\* counts that fit the device buffers the resource had
UpdateWithinCapacity ==
  /\ drew.valid /\ drew.path = "update"
  /\ Len(Vertices) > 0 /\ Len(Indices) > 0
  /\ Len(Vertices) <= drew.before.capacity
  /\ Len(Indices) <= drew.before.indexCapacity

\* C21: an update reallocates the device resource only when the vertex or index
\* count exceeds the capacity the device buffers were allocated with: a buffer
\* whose counts shrank and grow back to at most the allocated size is updated in
\* place and keeps its resource object and its buffer handles.
C21_ReallocatesOnlyBeyondCapacity ==
  UpdateWithinCapacity
  => /\ ResourceId(RendererNativeArray).obj = drew.before.obj
     /\ ResourceId(RendererNativeArray).handles = drew.before.handles

\* the step the flags a call found call for
StepOfFlags(before, flags) ==
  IF ~before.present THEN "create"
  ELSE IF flags.OnlyUpdateBufferIfPossible THEN "update"
  ELSE IF flags.OnlyPositionsChanged THEN "positions"
  ELSE "none"

\* C22 as stated: every drawMeshBuffer call takes the one step its precedence
\* names (create without a device resource, else update when
\* OnlyUpdateBufferIfPossible is set, else positions when OnlyPositionsChanged
\* is set, else none) or no step at all, and after every call both flags are
\* false.
C22_OneStepAndFlagsCleared ==
  drew.valid
  => /\ ~OnlyPositionsChanged /\ ~OnlyUpdateBufferIfPossible
     /\ drew.path \in {StepOfFlags(drew.before, drew.flags), "no context"}

\* C22 as the code has it: a drawMeshBuffer call on a renderer that holds a
\* context takes the one step its precedence names and leaves both flags
\* false; a call on a renderer without a context takes no step and leaves the
\* flags and the device resource as they were.
C22_OneStepAndFlagsClearedWithContext ==
  drew.valid
  => IF drew.gl
     THEN /\ ~OnlyPositionsChanged /\ ~OnlyUpdateBufferIfPossible
          /\ drew.path = StepOfFlags(drew.before, drew.flags)
     ELSE /\ drew.path = "no context"
          /\ OnlyPositionsChanged = drew.flags.OnlyPositionsChanged
          /\ OnlyUpdateBufferIfPossible = drew.flags.OnlyUpdateBufferIfPossible
          /\ ResourceId(RendererNativeArray) = drew.before

\* C22 happens: a call that found both flags set on a buffer with a device
\* resource took the update step and cleared them
C22_Witness ==
  /\ drew.valid /\ drew.gl /\ drew.before.present
  /\ drew.flags.OnlyUpdateBufferIfPossible /\ drew.flags.OnlyPositionsChanged
  /\ drew.path = "update"
  /\ ~OnlyPositionsChanged /\ ~OnlyUpdateBufferIfPossible


\* C27: after a drawMeshBuffer call (no index count given) that took the update
\* path on a buffer with nonempty lists, the index references the GPU draws are
\* the buffer's present index list with the 2nd and 3rd index of every triangle
\* swapped, also when index values changed or the index count shrank.
C27_UpdateDrawsCurrentIndices ==
  (drew.valid /\ drew.path = "update" /\ drew.given = NotGiven
     /\ Len(Vertices) > 0 /\ Len(Indices) > 0)
  => drew.draw.refs = IndexArray(Indices)

\* the same, for the updates in place only: index values changed, no count grew
C27_InPlaceDrawsCurrentIndices ==
  (drew.valid /\ drew.path = "update" /\ drew.given = NotGiven
     /\ Len(Vertices) > 0 /\ Len(Indices) > 0
     /\ Len(Vertices) <= drew.before.vertexCount
     /\ Len(Indices) = drew.before.indexCount)
  => drew.draw.refs = IndexArray(Indices)

\* ------------------------------------------------ claims: texture loads

\* C23: a texture upload that completes between two redraw decisions makes the
\* next tick decide 'redraw' under the 'scene or camera change' policy and is
\* counted on that tick only: the flag is set exactly when an upload has
\* completed since the last tick, a tick sees a finished load exactly when one
\* completed since the tick before, and a tick that sees one under that policy
\* redraws.
C23_LoadCountedOnce ==
  /\ textureWasLoadedFlag <=> loadedSinceTick
  /\ last.valid => (last.tex <=> last.loaded)
  /\ (last.valid /\ last.loaded /\ last.mode = MODE_SCENE_CHANGED) => last.ret

\* C23 happens: of two ticks in a row under that policy with an unchanged
\* camera, the first came after an upload and redrew, and the second, with no
\* upload completed in between, saw no finished load and did not redraw
C23_Witness ==
  /\ last.valid /\ prev.valid /\ prev.tex /\ prev.ret
  /\ last.mode = MODE_SCENE_CHANGED
  /\ Quiet(last) /\ ~last.forced /\ ~last.loaded
  /\ ~last.ret /\ ~textureWasLoadedFlag

\* ---------------------------------------------- claims: deletion queue

\* the entries of a list the test of the loop takes at clock value t
DueEntries(list, deleteAll, t) == {i \in 1..Len(list) : IsDue(list[i], deleteAll, t)}
\* the entries of a list that are not in a set of positions, in their order
RECURSIVE Without(_, _)
Without(list, positions) ==
  IF list = <<>> THEN <<>>
  ELSE LET front == Without(SubSeq(list, 1, Len(list) - 1), positions)
       IN IF Len(list) \in positions THEN front ELSE Append(front, list[Len(list)])

\* C28: after clearDeletionList(false) at clock value now the list holds
\* exactly the entries that were queued and not due (deadline not before now),
\* in their order; every due entry is gone and its node detached, none skipped;
\* the nodes of no due entry keep their parent; the call returns true iff an
\* entry was removed; clearDeletionList(true) leaves the list empty.
C28_ClearRemovesExactlyDue ==
  deletion.valid
  => LET due == DueEntries(deletion.list, deletion.deleteAll, deletion.t) IN
     /\ DeletionList = Without(deletion.list, due)
     /\ \A i \in due : ~Parent[deletion.list[i].node]
     /\ \A n \in Nodes : (\A i \in due : deletion.list[i].node # n)
                         => Parent[n] = deletion.parent[n]
     /\ deletion.ret <=> due # {}
     /\ deletion.deleteAll => DeletionList = <<>>
     /\ ~deletion.deleteAll =>
          \A i \in 1..Len(DeletionList) : DeletionList[i].timeAfterToDelete >= deletion.t

\* C28 happens: a call with false found two due entries next to each other and
\* one that was not due, removed the two and kept the third
C28_Witness ==
  /\ deletion.valid /\ ~deletion.deleteAll /\ deletion.ret
  /\ Len(deletion.list) >= 3
  /\ \E i \in 1..(Len(deletion.list) - 1) :
       {i, i + 1} \subseteq DueEntries(deletion.list, FALSE, deletion.t)
  /\ Len(DeletionList) = Len(deletion.list) - 2

\* ------------------------------------------------- claims: no camera

\* C29: while the scene has no active camera every tick redraws, under each of
\* the three redraw policies and whatever else is unchanged, and no tick
\* without a camera stores a last-drawn View x Projection (the stored one is
\* that of the last frame drawn with a camera, or the initial identity).
C29_NoCameraAlwaysRedraws ==
  /\ (last.valid /\ ~last.cam) => last.ret
  /\ LastViewProj = drawnViewProj

\* C29 happens: two ticks in a row without a camera under 'camera movement
\* only', nothing changed, forced or loaded, and both redrew
C29_Witness ==
  /\ last.valid /\ prev.valid
  /\ ~prev.cam /\ ~last.cam /\ ~ActiveCamera.present
  /\ last.mode = MODE_CAM_MOVED
  /\ ~last.anim /\ ~last.deleted /\ ~last.tex /\ ~last.script /\ ~last.forced
  /\ ~prev.tex /\ ~prev.forced
  /\ prev.ret /\ last.ret

\* ---------------------------------------------------- claims: textures

\* the WebGL texture a unit must hold for a texture reference of a material
BoundFor(tex) ==
  IF tex.present /\ Textures[tex.id].Loaded THEN Textures[tex.id].Texture ELSE 0

\* C24: after a setMaterial call that resolves a program, unit 0 (unit 1) holds
\* the material's first (second) texture if it is present and loaded and no
\* texture otherwise: neither the texture an earlier call bound nor a texture
\* released with deleteTexture stays on a unit.
C24_UnitsFollowMaterial ==
  (called.valid /\ called.op = "setMaterial" /\ called.resolved /\ ~called.threw)
  => /\ glState.tex0 = BoundFor(called.mat.flags.Tex1)
     /\ glState.tex1 = BoundFor(called.mat.flags.Tex2)
     /\ \A t \in TextureObjects :
          ~Textures[t].Loaded => (glState.tex0 # t /\ glState.tex1 # t)

\* C24 happens: a material whose first texture was loaded and then deleted, and
\* which has no second texture, is set after a material that bound both units
C24_Witness ==
  /\ called.valid /\ called.op = "setMaterial" /\ called.resolved /\ called.gpu
  /\ called.mat.flags.Tex1.present /\ ~called.mat.flags.Tex1.Loaded
  /\ ~called.mat.flags.Tex2.present
  /\ ~called.kept
  /\ glState.tex0 = 0 /\ glState.tex1 = 0
  /\ \E t \in TextureObjects : Textures[t].Loaded

\* ------------------------------------------------ claims: lit draws

\* the program that wants the light positions in world space
IsNormalMapProgram(program) == program.present /\ program.no = 10
\* the positions of the uploaded lights
UploadedPositions(constants) ==
  [i \in LightSlots |-> SubSeq(constants.positionArray[i], 1, 3)]
\* the lit draw that has just happened
LitDraw ==
  /\ called.valid /\ called.op = "drawMesh" /\ "upload" \in DOMAIN called
  /\ called.upload.valid

\* C25: a draw of a mesh buffer with a program that has light constants uploads
\* the light positions moved into the object's space by the inverse of the
\* world matrix unless the program in use is the normal mapping program, which
\* gets them in world space, whatever mesh buffer is drawn.
C25_LightSpaceFollowsProgram ==
  LitDraw
  => UploadedPositions(called.upload.constants) =
       UploadedPositions(setDynamicLightsIntoConstants(Lights, RendererAmbientLight,
          called.world, IsNormalMapProgram(glState.program), FALSE))

\* the same for draws with the normal mapping program only
C25_NormalMapGetsWorldSpace ==
  (LitDraw /\ IsNormalMapProgram(glState.program))
  => UploadedPositions(called.upload.constants) =
       UploadedPositions(setDynamicLightsIntoConstants(Lights, RendererAmbientLight,
          called.world, TRUE, FALSE))

\* ------------------------------------------------ claims: 2D draws

\* C26: every device buffer draw2DRectangle or draw2DImage creates is deleted
\* before the call is over, on every path through it, so after any sequence of
\* 2D draws no device buffer of a 2D draw is alive.
C26_NoEphemeralBufferAlive == ephemeralBuffers = 0

\* the same for the calls that return
C26_ReturningCallsReleaseAll ==
  [][(called'.valid /\ called'.op \in {"draw2DRectangle", "draw2DImage"} /\ ~called'.threw)
       => ephemeralBuffers' = ephemeralBuffers]_vars

\* a rectangle and an image were drawn on a renderer with its 2D programs
C26_DrawnAndReleased ==
  /\ called.valid /\ called.op = "draw2DImage" /\ called.gpu /\ ~called.threw
  /\ ephemeralBuffers = 0

\* ------------------------------------------------ claims: registration

\* the material type ids a table is read at
TypeIds == 0..(31 + MaxMaterialTypes)
\* the ids at which a table reads differently after a step
ChangedUnlit ==
  {t \in TypeIds : TableLookup(BuiltinPrograms', MaterialPrograms', t)
                     # TableLookup(BuiltinPrograms, MaterialPrograms, t)}
ChangedLit ==
  {t \in TypeIds : TableLookup(BuiltinProgramsWithLight', MaterialProgramsWithLight', t)
                     # TableLookup(BuiltinProgramsWithLight, MaterialProgramsWithLight, t)}

\* C30: createMaterialType changes no entry of either program table at an id of
\* the built-in range or at an id registered before; a call that succeeds
\* writes exactly one new index, the id it returns, with the same program in
\* the lit and the unlit table, so an external id resolves to the same program
\* for lit and unlit materials; a call that fails writes nothing.
C30_RegistrationWritesOneNewIndex ==
  [][created'.valid
       => /\ (ChangedUnlit \cup ChangedLit) \cap (0..MinExternalMaterialTypeId) = {}
          /\ created'.ret = -1 => (ChangedUnlit = {} /\ ChangedLit = {})
          /\ created'.ret # -1
               => /\ ChangedUnlit = {created'.ret} /\ ChangedLit = {created'.ret}
                  /\ created'.ret > MinExternalMaterialTypeId
                  /\ TableLookup(BuiltinPrograms', MaterialPrograms', created'.ret).present
          /\ \A t \in TypeIds \ BuiltinIds :
               TableLookup(BuiltinPrograms', MaterialPrograms', t)
                 = TableLookup(BuiltinProgramsWithLight', MaterialProgramsWithLight', t)]_vars

\* a third type was registered after two others
C30_Witness ==
  /\ created.valid /\ created.ret = 33 /\ created.prevRet = 32
  /\ Len(MaterialPrograms) = 3
  /\ MaterialPrograms[1] # MaterialPrograms[2] /\ MaterialPrograms[2] # MaterialPrograms[3]
  /\ MaterialProgramsWithLight = MaterialPrograms

====
